---- MODULE Spec2Model ----
(***************************************************************************)
(* Guard patrol tracker: the guard's scan screen (GuardDashboard.tsx).     *)
(* State of the component, the camera instances it creates, the           *)
(* evaluations started by decode callbacks, and the two store tables the  *)
(* evaluation reads and writes (checkpoints, scans).                      *)
(***************************************************************************)
EXTENDS Integers, Sequences, FiniteSets, TLC

(* ------------------------------------------------------------------ *)
(* Bounds of the model                                                 *)
(* ------------------------------------------------------------------ *)
MaxTasks == 5      \* handler invocations in one run: initializeScanner,
                   \* handleScanSuccess past the latch, Cancel onClick
MaxTicks == 1      \* clock advances in one run
MaxOther == 2      \* scans written by other devices in one run
MaxCoord == 2      \* device latitudes are whole degrees 0..MaxCoord
MaxRequests == 2   \* position requests of all tabs
MaxCalls == 2      \* invocations of the create-guard and delete-guard functions

(* ------------------------------------------------------------------ *)
(* Program constants                                                   *)
(* ------------------------------------------------------------------ *)
R == 6371000                   \* Earth's radius in meters
MAX_DISTANCE_METERS == 100
DUPLICATE_MINUTES == 5         \* subMinutes(new Date(), 5)
SecondsPerMinute == 60         \* the clock of the model counts seconds
DefaultDistance == 100         \* checkpoints.distance numeric DEFAULT 100
Scale == 10000                 \* fixed point: 4 decimal digits

(* A nullable number is <<>> (null) or <<v>>. *)
Null == <<>>
Some(v) == <<v>>
Val(x) == x[1]

(* JavaScript truthiness of a nullable number: null and 0 are falsy. *)
Truthy(x) == x # Null /\ Val(x) # 0

(* ------------------------------------------------------------------ *)
(* calculateDistance: Haversine in fixed-point arithmetic              *)
(* ------------------------------------------------------------------ *)
Abs(x) == IF x < 0 THEN 0 - x ELSE x

(* x * Math.PI / 180, scaled; odd in x as IEEE multiplication is *)
Rad(deg) ==
  IF deg < 0 THEN 0 - ((Abs(deg) * 314159) \div 1800)
  ELSE (deg * 314159) \div 1800

(* Math.sin on scaled radians (odd function), series to x^5 *)
SinPos(x) ==
  LET x2 == (x * x) \div Scale
      x3 == (x2 * x) \div Scale
      x5 == (((x3 * x) \div Scale) * x) \div Scale
  IN x - (x3 \div 6) + (x5 \div 120)
Sin(x) == IF x < 0 THEN 0 - SinPos(0 - x) ELSE SinPos(x)

(* Math.cos on scaled radians (even function), series to x^4 *)
Cos(x) ==
  LET y == Abs(x)
      x2 == (y * y) \div Scale
      x4 == (x2 * x2) \div Scale
  IN Scale - (x2 \div 2) + (x4 \div 24)

(* x / 2 on scaled radians, sign-symmetric as the IEEE division is; *)
(* HalfFloor rounds toward minus infinity instead                   *)
HalfFloor(x) == x \div 2
Half(x) == IF x < 0 THEN 0 - ((0 - x) \div 2) ELSE x \div 2

RECURSIVE SqrtBetween(_, _, _)
SqrtBetween(n, lo, hi) ==
  IF lo >= hi THEN lo
  ELSE LET mid == (lo + hi + 1) \div 2
       IN IF mid * mid <= n THEN SqrtBetween(n, mid, hi)
          ELSE SqrtBetween(n, lo, mid - 1)
(* Math.sqrt of a value scaled by Scale^2, result scaled by Scale *)
Sqrt(n) == SqrtBetween(n, 0, Scale)

(* Math.atan2(y, x) for y >= 0, x >= 0, scaled; series to t^5 *)
Atan2(y, x) ==
  IF x = 0 THEN 15708
  ELSE LET t == (y * Scale) \div x
           t2 == (t * t) \div Scale
           t3 == (t2 * t) \div Scale
           t5 == (t3 * t2) \div Scale
       IN t - (t3 \div 3) + (t5 \div 5)

(* product of two scaled values, sign-symmetric as IEEE multiplication is *)
Mul(x, y) ==
  IF (x < 0) = (y < 0) THEN (Abs(x) * Abs(y)) \div Scale
  ELSE 0 - ((Abs(x) * Abs(y)) \div Scale)

calculateDistance(lat1, lon1, lat2, lon2) ==
  LET p1 == Rad(lat1)
      p2 == Rad(lat2)
      dp == Rad(lat2 - lat1)
      dl == Rad(lon2 - lon1)
      \* a is kept scaled by Scale^2
      a == Sin(Half(dp)) * Sin(Half(dp))
           + Mul(Mul(Cos(p1), Cos(p2)), Sin(Half(dl))) * Sin(Half(dl))
      c == 2 * Atan2(Sqrt(a), Sqrt(Scale * Scale - a))
  IN ((R \div 1000) * c) \div 10

(* ------------------------------------------------------------------ *)
(* Data                                                                *)
(* ------------------------------------------------------------------ *)
USER == "g1"                   \* user.id of the signed-in guard
OTHER_GUARD == "g2"                \* another guard
Guards == {USER, OTHER_GUARD}
(* profile?.full_name || user?.email || 'Unknown' *)
GuardName(g) == IF g = USER THEN "Guard One" ELSE "Guard Two"
Prefix == "checkpoint:"

(* A decoded text is a sequence of chunks; the literal prefix is one chunk. *)
Payloads ==
  { <<Prefix, "cpA">>, <<"cpB">>, <<Prefix, "cpZ">>, <<"cpA", Prefix>>, <<"nope">> }

(* const qrValue = `checkpoint:${checkpoint.id}` *)
qrValue(id) == <<Prefix>> \o id

(* decodedText.startsWith('checkpoint:') ? decodedText.replace('checkpoint:', '') : decodedText; *)
(* StripAnywhere is the replace without the startsWith                                          *)
StripAnywhere(decodedText) == SelectSeq(decodedText, LAMBDA chunk : chunk # Prefix)
Parse(decodedText) ==
  IF Len(decodedText) > 0 /\ decodedText[1] = Prefix THEN Tail(decodedText)
  ELSE decodedText

(* the checkpoints scanned from other devices *)
OtherDeviceCheckpoints == { <<"cpB">> }
Latitudes == 0..MaxCoord
Longitudes == {0, 1}
(* what navigator.geolocation.getCurrentPosition can answer: a position, or *)
(* a failure (denied, unavailable, timed out after 10 s)                    *)
GeoFail == <<>>
GeoAnswers == {GeoFail} \cup { <<la, lo>> : la \in Latitudes, lo \in Longitudes }

ScanStatus == {"idle", "scanning", "success", "error", "duplicate", "location_warning"}
Terminal == {"success", "error", "duplicate", "location_warning"}

NoMessage == [text |-> "", d |-> Null, max |-> Null]
InvalidMessage == [text |-> "Invalid checkpoint QR code", d |-> Null, max |-> Null]
DuplicateMessage == [text |-> "Already scanned within 5 minutes", d |-> Null, max |-> Null]
TooFarMessage(dist) ==
  [text |-> "You are {d}m away from checkpoint (max {max}m)",
   d |-> Some(dist), max |-> Some(MAX_DISTANCE_METERS)]
FailedMessage(text) == [text |-> text, d |-> Null, max |-> Null]

VARIABLES
  scanStatus,          \* useState<ScanStatus>
  errorMessage,        \* useState('')
  lastScan,            \* useState<ScanType | null>: id of the scan, 0 for null
  isScanning,          \* useState(false)
  scannerRef,          \* useRef<Html5Qrcode | null>: instance id, 0 for null
  isStartingRef,       \* useRef(false)
  isProcessingScanRef, \* useRef(false)
  cam,                 \* state of each Html5Qrcode instance
  inits,               \* the initializeScanner invocations
  evals,               \* the handleScanSuccess invocations that passed the latch
  cancels,             \* the Cancel clicks
  checkpoints,         \* table public.checkpoints
  scans,               \* table public.scans
  clock,               \* wall clock, in seconds
  ticks,               \* clock advances so far
  sessionInserts,      \* scans inserted by evaluations of this scanning session
  ignored,             \* a decode callback of this session returned at the latch
  toast,               \* distance the last success toast reported
  remote,              \* the evaluation running on another device
  guard_locations,     \* table public.guard_locations
  tabs,                \* the useLocationTracking sessions, one per tab
  sent,                \* the writes to guard_locations issued so far
  requests,            \* the position requests made so far
  users,               \* auth.users: the ids of the accounts
  profiles,            \* table public.profiles
  user_roles,          \* table public.user_roles
  calls,               \* the invocations of the create-guard and delete-guard functions
  logs,                \* ScanLogs: the rows fetched and the file exported
  stats,               \* AdminDashboard: the state stats
  fetch,               \* AdminDashboard: the fetchStats under way
  guardLocations       \* LiveGuardMap: the state guardLocations

vars == <<scanStatus, errorMessage, lastScan, isScanning, scannerRef, isStartingRef,
          isProcessingScanRef, cam, inits, evals, cancels, checkpoints, scans,
          clock, ticks, sessionInserts, ignored, toast, remote,
          guard_locations, tabs, sent, requests, users, profiles, user_roles, calls,
          logs, stats, fetch, guardLocations>>

ui == <<scanStatus, errorMessage, lastScan, toast>>
refs == <<isScanning, scannerRef, isStartingRef, isProcessingScanRef>>
store == <<checkpoints, scans>>
time == <<clock, ticks>>
(* the state of the scan screen of this device *)
screen == <<ui, refs, cam, inits, evals, cancels, sessionInserts, ignored>>
(* the location reporter and its table *)
tracking == <<guard_locations, tabs, sent, requests>>
(* what the scan screen never reads or writes *)
(* the accounts and the two functions that manage them *)
accounts == <<users, profiles, user_roles, calls>>
(* the readers of the administrator: the dashboard and the live map *)
readers == <<stats, fetch, guardLocations>>
others == <<tracking, accounts, logs, readers>>

InitIds == 1..MaxTasks
EvalIds == 1..MaxTasks
CancelIds == 1..MaxTasks

(* An evaluation: the locals of one handleScanSuccess invocation, and what *)
(* it has done so far (the requests it issued, the answers it got)        *)
NoEval ==
  [pc |-> "none", decodedText |-> <<>>, checkpointId |-> <<>>, cp |-> Null,
   fiveMinutesAgo |-> 0,
   lat |-> Null, lng |-> Null, dist |-> Null, active |-> 0,
   current |-> FALSE,     \* started in the scanning session that is still on
   cancelled |-> FALSE,   \* a Cancel completed while it was running
   queried |-> 0,         \* duplicate queries issued
   located |-> 0,         \* geolocation requests issued
   issued |-> 0,          \* inserts issued
   late |-> FALSE,        \* the insert was issued after the Cancel
   existing |-> Null,     \* existingScans.length, null for data = null
   ages |-> {},           \* now - scanned_at of this guard's scans of the checkpoint
   fault |-> "",          \* the store call that failed
   outcome |-> ""]

(* fetchStats: where it stands and what its queries have answered; unique: *)
(* the distinct checkpoint ids the last query held                         *)
NoFetch == [pc |-> "idle", guardCount |-> Null, checkpointCount |-> Null, today |-> 0,
            scanCount |-> Null, answered |-> FALSE, unique |-> 0]

(* the administrator *)
ADMIN == "a1"
FullName(u) == IF u = ADMIN THEN "Admin" ELSE GuardName(u)

CallIds == 1..MaxCalls
NoResponse == [status |-> 0, error |-> ""]
(* an invocation of a function: where its handler stands, what it was sent, *)
(* what it has resolved so far and what it answered; admin: the user of its *)
(* token held the admin role when the handler asked                         *)
NoCall == [fn |-> "", pc |-> "none", header |-> Null, body |-> Null, token |-> <<>>,
           user |-> Null, admin |-> FALSE, created |-> "", response |-> NoResponse]

(* two tabs of the same guard *)
TabIds == {"tab1", "tab2"}
(* a tab: the effect of useLocationTracking is mounted or not, its interval *)
(* timer, the position requests it has made and those not answered yet, and *)
(* the writes it has issued that the store has not answered yet             *)
NoTab == [mounted |-> FALSE, torn |-> FALSE, timer |-> FALSE, pending |-> 0,
          writes |-> {}, lost |-> FALSE]

(* the evaluation of another device, between its duplicate query and its insert *)
NoRemote == [pc |-> "none", guard_id |-> "", checkpointId |-> <<>>]

Checkpoint(id, name, la, lo) ==
  [id |-> id, name |-> name, latitude |-> la, longitude |-> lo,
   distance |-> Some(DefaultDistance)]

Init ==
  /\ scanStatus = "idle"
  /\ errorMessage = NoMessage
  /\ lastScan = 0
  /\ isScanning = FALSE
  /\ scannerRef = 0
  /\ isStartingRef = FALSE
  /\ isProcessingScanRef = FALSE
  /\ cam = [i \in InitIds |-> "none"]
  /\ inits = [i \in InitIds |-> [pc |-> "none", active |-> 0]]
  /\ evals = [e \in EvalIds |-> NoEval]
  /\ cancels = [c \in CancelIds |-> [pc |-> "none", active |-> 0, session |-> 0]]
  /\ checkpoints = { Checkpoint(<<"cpA">>, "Gate", Null, Null),
                     Checkpoint(<<"cpB">>, "Depot", Some(1), Some(1)),
                     Checkpoint(<<"cpZ">>, "Pier", Some(0), Some(1)) }
  /\ scans = {}
  /\ clock = 0
  /\ ticks = 0
  /\ sessionInserts = 0
  /\ ignored = FALSE
  /\ toast = Null
  /\ remote = NoRemote
  /\ guard_locations = {}
  /\ tabs = [t \in TabIds |-> NoTab]
  /\ sent = {}
  /\ requests = 0
  /\ users = {ADMIN} \cup Guards
  /\ profiles = { [user_id |-> u, full_name |-> FullName(u)] : u \in {ADMIN} \cup Guards }
  /\ user_roles = {[user_id |-> ADMIN, role |-> "admin"]}
                    \cup { [user_id |-> g, role |-> "guard"] : g \in Guards }
  /\ calls = [k \in CallIds |-> NoCall]
  /\ logs = [rows |-> {}, csv |-> {}]
  /\ stats = [totalGuards |-> 0, totalCheckpoints |-> 0, todayScans |-> 0,
              coveragePercent |-> 0]
  /\ fetch = NoFetch
  /\ guardLocations = {}

(* ------------------------------------------------------------------ *)
(* Html5Qrcode instances                                               *)
(* ------------------------------------------------------------------ *)
(* stop() of an instance that is scanning starts the release of the    *)
(* camera and resolves later; of any other instance it rejects at once *)
(* and the caller's catch swallows it.                                 *)
StopResolvesLater(i) == i # 0 /\ cam[i] = "running"

NextInit == Cardinality({ i \in InitIds : inits[i].pc # "none" }) + 1
NextEval == Cardinality({ e \in EvalIds : evals[e].pc # "none" }) + 1
NextCancel == Cardinality({ c \in CancelIds : cancels[c].pc # "none" }) + 1
(* a further handler invocation fits in the run *)
Budget == (NextInit - 1) + (NextEval - 1) + (NextCancel - 1) < MaxTasks

(* ------------------------------------------------------------------ *)
(* initializeScanner                                                   *)
(* ------------------------------------------------------------------ *)
(* what the steps of the try block fail with: the cause, err.message and *)
(* the substrings tested by the catch block that the message contains    *)
Causes == {"permission", "absence", "contention"}

(* the errors initializeScanner throws itself: every failure of          *)
(* getCameras, whatever its cause, the empty camera list, and the        *)
(* qr-reader element that never appeared                                 *)
ThrownFailures ==
  { [cause |-> c,
     message |-> "Camera permission denied. Please allow camera access in your browser/device settings and try again.",
     has |-> {}] : c \in Causes \cup {"other"} }
  \cup
  { [cause |-> "absence", message |-> "No camera found on this device.", has |-> {"No camera"}],
    [cause |-> "other", message |-> "Scanner UI not ready. Please try again.", has |-> {}] }

(* the rejections of getUserMedia and html5Qrcode.start: the cause is    *)
(* the name of the exception, which the catch block does not read; the   *)
(* message is the platform's own wording, with or without a tested       *)
(* substring; a rejection that is not an Error has no message            *)
PlatformFailures ==
  { [cause |-> "permission", message |-> "Permission denied", has |-> {"Permission"}],
    [cause |-> "permission",
     message |-> "The request is not allowed by the user agent or the platform in the current context.",
     has |-> {}],
    [cause |-> "absence", message |-> "Requested device not found", has |-> {}],
    [cause |-> "contention", message |-> "Device in use", has |-> {"in use"}],
    [cause |-> "contention", message |-> "Could not start video source", has |-> {}],
    [cause |-> "other", message |-> "", has |-> {}] }

StartFailures == ThrownFailures \cup PlatformFailures

(* const errorMsg = err?.message || 'Failed to start camera' *)
errorMsg(err) == IF err.message = "" THEN "Failed to start camera" ELSE err.message

StartFailureText(err) ==
  IF "NotAllowed" \in err.has \/ "Permission" \in err.has
    THEN "Camera permission denied. iPhone: Settings -> Safari -> Camera. Android: Site settings -> Camera."
  ELSE IF "NotFound" \in err.has \/ "No camera" \in err.has
    THEN "No camera found on this device."
  ELSE IF "NotReadable" \in err.has \/ "in use" \in err.has
    THEN "Camera is in use by another app. Please close other apps using the camera."
  ELSE errorMsg(err)

(* Start Scanning is rendered in the idle view only *)
InitializeScanner(i) ==
  /\ i = NextInit
  /\ Budget
  /\ scanStatus = "idle"
  /\ ~(isScanning \/ isStartingRef)
  /\ isStartingRef' = TRUE
  /\ scanStatus' = "scanning"
  /\ errorMessage' = NoMessage
  /\ inits' = [inits EXCEPT ![i].pc = "preflight"]
  /\ UNCHANGED <<lastScan, toast, isScanning, scannerRef, isProcessingScanRef, cam,
                 evals, cancels, store, time, remote, others, sessionInserts, ignored>>

(* getUserMedia, waitForQrReaderEl and getCameras succeeded: the qr-reader *)
(* element is there, which the scanning view alone renders                 *)
InitCreate(i) ==
  /\ inits[i].pc = "preflight"
  /\ scanStatus = "scanning"
  /\ scannerRef' = i
  /\ isScanning' = TRUE
  /\ cam' = [cam EXCEPT ![i] = "starting"]
  /\ inits' = [inits EXCEPT ![i].pc = "start"]
  /\ UNCHANGED <<ui, isStartingRef, isProcessingScanRef, evals, cancels, store, time, remote, others,
                 sessionInserts, ignored>>

(* html5Qrcode.start resolved; finally *)
InitStarted(i) ==
  /\ inits[i].pc = "start"
  /\ cam[i] = "starting"
  /\ cam' = [cam EXCEPT ![i] = "running"]
  /\ isStartingRef' = FALSE
  /\ inits' = [inits EXCEPT ![i].pc = "done"]
  /\ UNCHANGED <<ui, isScanning, scannerRef, isProcessingScanRef, evals, cancels, store,
                 time, remote, others, sessionInserts, ignored>>

(* the catch block up to await scannerRef.current?.stop(), and, when that *)
(* stop rejects at once or there is no scanner, the rest and finally      *)
InitCatch(i, err, camAfter) ==
  /\ errorMessage' = FailedMessage(StartFailureText(err))
  /\ scanStatus' = "error"
  /\ isScanning' = FALSE
  /\ IF StopResolvesLater(scannerRef)
       THEN /\ cam' = [camAfter EXCEPT ![scannerRef] = "stopping"]
            /\ inits' = [inits EXCEPT ![i] = [pc |-> "catch", active |-> scannerRef]]
            /\ UNCHANGED <<scannerRef, isStartingRef>>
       ELSE /\ cam' = camAfter
            /\ scannerRef' = 0
            /\ isStartingRef' = FALSE
            /\ inits' = [inits EXCEPT ![i].pc = "done"]
  /\ UNCHANGED <<lastScan, toast, isProcessingScanRef, evals, cancels, store, time, remote, others,
                 sessionInserts, ignored>>

InitPreflightFailed(i, err) ==
  /\ inits[i].pc = "preflight"
  /\ InitCatch(i, err, cam)

InitStartFailed(i, err) ==
  /\ inits[i].pc = "start"
  /\ cam[i] = "starting"
  /\ InitCatch(i, err, [cam EXCEPT ![i] = "stopped"])

(* the awaited stop of the catch block resolved: clear, then finally *)
InitCatchStopped(i) ==
  /\ inits[i].pc = "catch"
  /\ cam' = [cam EXCEPT ![inits[i].active] = "stopped"]
  /\ scannerRef' = 0
  /\ isStartingRef' = FALSE
  /\ inits' = [inits EXCEPT ![i].pc = "done"]
  /\ UNCHANGED <<ui, isScanning, isProcessingScanRef, evals, cancels, store, time, remote, others,
                 sessionInserts, ignored>>

(* ------------------------------------------------------------------ *)
(* resetScanner, stopScanner, Cancel                                   *)
(* ------------------------------------------------------------------ *)
Finished == [NoEval EXCEPT !.pc = "done"]

(* resetScanner: the assignments of its body. A new scanning session     *)
(* begins: the evaluations that have ended are forgotten, the ones still *)
(* running belong to an earlier session from now on.                     *)
ResetScanner(byCancel) ==
  /\ scanStatus' = "idle"
  /\ errorMessage' = NoMessage
  /\ scannerRef' = 0
  /\ isProcessingScanRef' = FALSE
  /\ sessionInserts' = 0
  /\ ignored' = FALSE
  /\ evals' = [e \in EvalIds |->
                 IF evals[e].pc = "done" THEN Finished
                 ELSE IF evals[e].pc = "none" THEN evals[e]
                 ELSE [evals[e] EXCEPT !.current = FALSE,
                                       !.cancelled = @ \/ byCancel]]

(* the reset button of the success, location_warning, error and duplicate views *)
ResetClick ==
  /\ scanStatus \in Terminal
  /\ (scanStatus \in {"success", "location_warning"} => lastScan # 0)
  /\ ResetScanner(FALSE)
  /\ UNCHANGED <<lastScan, toast, isScanning, isStartingRef, cam, inits, cancels,
                 store, time, remote, others>>

(* stopScanner after its await, then resetScanner *)
CancelFinish ==
  /\ isScanning' = FALSE
  /\ isStartingRef' = FALSE
  /\ ResetScanner(TRUE)

(* the initializeScanner invocation that set the status to scanning *)
SessionInit == NextInit - 1

(* Cancel onClick: await stopScanner(); resetScanner(). The button is *)
(* rendered in the scanning view only.                                *)
CancelClick(c) ==
  /\ c = NextCancel
  /\ Budget
  /\ scanStatus = "scanning"
  /\ IF StopResolvesLater(scannerRef)
       THEN /\ cam' = [cam EXCEPT ![scannerRef] = "stopping"]
            /\ cancels' = [cancels EXCEPT ![c] = [pc |-> "stop", active |-> scannerRef,
                                                   session |-> SessionInit]]
            /\ UNCHANGED <<scanStatus, errorMessage, refs, sessionInserts, ignored, evals>>
       ELSE /\ cancels' = [cancels EXCEPT ![c] = [pc |-> "done", active |-> 0,
                                                   session |-> SessionInit]]
            /\ CancelFinish
            /\ UNCHANGED cam
  /\ UNCHANGED <<lastScan, toast, inits, store, time, remote, others>>

(* active.stop() resolved: active.clear(), the rest of stopScanner, resetScanner *)
CancelStopped(c) ==
  /\ cancels[c].pc = "stop"
  /\ cam' = [cam EXCEPT ![cancels[c].active] = "stopped"]
  /\ cancels' = [cancels EXCEPT ![c].pc = "done"]
  /\ CancelFinish
  /\ UNCHANGED <<lastScan, toast, inits, store, time, remote, others>>

(* ------------------------------------------------------------------ *)
(* handleScanSuccess                                                   *)
(* ------------------------------------------------------------------ *)
(* the value line 225 stores in isProcessingScanRef.current *)
LatchNotSet == FALSE
LatchOnEntry == TRUE

(* .gte('scanned_at', fiveMinutesAgo.toISOString()) *)
AfterWindowStart(scannedAt, fiveMinutesAgo) == scannedAt > fiveMinutesAgo
InWindow(scannedAt, fiveMinutesAgo) == scannedAt >= fiveMinutesAgo

(* subMinutes(new Date(), 5) *)
FiveMinutes == DUPLICATE_MINUTES * SecondsPerMinute
FiveMinutesAgo(now) == now - FiveMinutes

(* the rows the duplicate query selects *)
ExistingScans(checkpointId, fiveMinutesAgo) ==
  { s \in scans : /\ s.guard_id = USER
                  /\ s.checkpoint_id = checkpointId
                  /\ InWindow(s.scanned_at, fiveMinutesAgo) }

(* checkpointError || !checkpoint *)
LookupRejectedOnErrorOnly(ok, rows) == ~ok
LookupRejected(ok, rows) == ~ok \/ rows = {}

(* .single() of the rows with that id *)
SingleRow(rows) == IF rows = {} THEN Null ELSE Some(CHOOSE cp \in rows : TRUE)

(* cp.latitude && cp.longitude *)
hasCheckpointGPS(cp) == Truthy(cp.latitude) /\ Truthy(cp.longitude)

(* lines 290-292: the distance, or null *)
DistanceFromCheckpoint(cp, lat, lng) ==
  IF hasCheckpointGPS(cp) /\ Truthy(lat) /\ Truthy(lng)
    THEN Some(calculateDistance(Val(lat), Val(lng), Val(cp.latitude), Val(cp.longitude)))
    ELSE Null

(* line 301 *)
isTooFar(cp, dist) ==
  hasCheckpointGPS(cp) /\ dist # Null /\ Val(dist) > MAX_DISTANCE_METERS

(* lines 304-311: scanData *)
ScanDataWithoutLocation(ev, cp) ==
  [guard_id |-> USER, guard_name |-> GuardName(USER),
   checkpoint_id |-> ev.checkpointId, checkpoint_name |-> cp.name,
   latitude |-> Null, longitude |-> Null]
ScanData(ev, cp) ==
  [guard_id |-> USER, guard_name |-> GuardName(USER),
   checkpoint_id |-> ev.checkpointId, checkpoint_name |-> cp.name,
   latitude |-> ev.lat, longitude |-> ev.lng]

(* err.message || 'Scan failed', for the message of the error thrown *)
ScanFailedText(message) == IF message = "" THEN "Scan failed" ELSE message
(* insertError.message of a failed insert *)
InsertErrorMessages == {"", "Failed to fetch"}

(* line 319: if (insertError) throw insertError *)
InsertErrorIgnored(ok) == FALSE
InsertError(ok) == ~ok

(* a decode callback of instance i that finds the latch set returns at once *)
HandleScanIgnored(i, decodedText) ==
  /\ cam[i] \in {"running", "stopping"}
  /\ isProcessingScanRef
  /\ ignored' = TRUE
  /\ UNCHANGED <<ui, refs, cam, inits, evals, cancels, store, time, remote, others, sessionInserts>>

(* a decode callback of instance i that passes the latch: lines 221-237 up to *)
(* the await of active.stop(), and past it when stop rejects at once or there  *)
(* is no scanner; then the checkpoint lookup is issued                         *)
HandleScanSuccess(i, decodedText) ==
  /\ cam[i] \in {"running", "stopping"}
  /\ ~isProcessingScanRef
  /\ Budget
  /\ isProcessingScanRef' = LatchOnEntry
  /\ LET e == NextEval
         started == [NoEval EXCEPT !.decodedText = decodedText,
                                   !.checkpointId = Parse(decodedText),
                                   !.current = TRUE]
     IN IF StopResolvesLater(scannerRef)
          THEN /\ cam' = [cam EXCEPT ![scannerRef] = "stopping"]
               /\ evals' = [evals EXCEPT ![e] =
                              [started EXCEPT !.pc = "stop", !.active = scannerRef]]
               /\ UNCHANGED <<scannerRef, isScanning>>
          ELSE /\ scannerRef' = 0
               /\ isScanning' = FALSE
               /\ evals' = [evals EXCEPT ![e] = [started EXCEPT !.pc = "lookup"]]
               /\ UNCHANGED cam
  /\ UNCHANGED <<ui, isStartingRef, inits, cancels, store, time, remote, others, sessionInserts, ignored>>

(* active.stop() resolved: clear, lines 235-237, the lookup is issued *)
ScanStopped(e) ==
  /\ evals[e].pc = "stop"
  /\ cam' = [cam EXCEPT ![evals[e].active] = "stopped"]
  /\ scannerRef' = 0
  /\ isScanning' = FALSE
  /\ evals' = [evals EXCEPT ![e].pc = "lookup"]
  /\ UNCHANGED <<ui, isStartingRef, isProcessingScanRef, inits, cancels, store, time, remote, others,
                 sessionInserts, ignored>>

(* an evaluation ends: setScanStatus(status), setErrorMessage(message) *)
Finish(e, status, message, ev) ==
  /\ scanStatus' = status
  /\ errorMessage' = message
  /\ evals' = [evals EXCEPT ![e] = [ev EXCEPT !.pc = "done", !.outcome = status]]

(* the checkpoint lookup returned: lines 246-265. ok is FALSE when the *)
(* request itself failed                                               *)
LookupReturned(e, ok) ==
  /\ evals[e].pc = "lookup"
  /\ LET rows == { cp \in checkpoints : cp.id = evals[e].checkpointId }
         ev == [evals[e] EXCEPT !.fault = IF ok THEN "" ELSE "lookup"]
     IN IF LookupRejected(ok, rows)
          THEN /\ Finish(e, "error", InvalidMessage, ev)
          ELSE /\ evals' = [evals EXCEPT ![e] =
                              [ev EXCEPT !.pc = "dup",
                                         !.cp = SingleRow(rows),
                                         !.fiveMinutesAgo = FiveMinutesAgo(clock),
                                         !.queried = @ + 1]]
               /\ UNCHANGED <<scanStatus, errorMessage>>
  /\ UNCHANGED <<lastScan, toast, refs, cam, inits, cancels, store, time, remote, others, sessionInserts,
                 ignored>>

(* existingScans && existingScans.length > 0: null, the data of a failed *)
(* query, is no duplicate; DuplicateOrFailed takes it for one            *)
DuplicateOrFailed(existingScans) == existingScans = Null \/ Val(existingScans) > 0
IsDuplicate(existingScans) == existingScans # Null /\ Val(existingScans) > 0

(* the duplicate query returned: lines 267-284. data is null when the *)
(* request failed                                                     *)
DuplicateReturned(e, ok) ==
  /\ evals[e].pc = "dup"
  /\ LET rows == ExistingScans(evals[e].checkpointId, evals[e].fiveMinutesAgo)
         existingScans == IF ok THEN Some(Cardinality(rows)) ELSE Null
         now == evals[e].fiveMinutesAgo + FiveMinutes
         ev == [evals[e] EXCEPT
                  !.existing = existingScans,
                  !.fault = IF ok THEN "" ELSE "dup",
                  !.ages = { now - s.scanned_at :
                               s \in { r \in scans : /\ r.guard_id = USER
                                                      /\ r.checkpoint_id = evals[e].checkpointId } }]
     IN IF IsDuplicate(existingScans)
          THEN Finish(e, "duplicate", DuplicateMessage, ev)
          ELSE /\ evals' = [evals EXCEPT ![e] = [ev EXCEPT !.pc = "geo", !.located = @ + 1]]
               /\ UNCHANGED <<scanStatus, errorMessage>>
  /\ UNCHANGED <<lastScan, toast, refs, cam, inits, cancels, store, time, remote, others, sessionInserts,
                 ignored>>

(* lines 278-295: where the evaluation goes on after the location step; the *)
(* catch of line 293 swallows a failed request                               *)
LocationFailureEscapes(answer) == IF answer = GeoFail THEN "thrown" ELSE "insert"
AfterLocation(answer) == "insert"

(* getCurrentPosition answered or failed: lines 285-317, the insert is issued *)
GeolocationReturned(e, answer) ==
  /\ evals[e].pc = "geo"
  /\ LET lat == IF answer = GeoFail THEN Null ELSE Some(answer[1])
         lng == IF answer = GeoFail THEN Null ELSE Some(answer[2])
         cp == Val(evals[e].cp)
     IN evals' = [evals EXCEPT ![e] =
                    [@ EXCEPT !.pc = AfterLocation(answer), !.lat = lat, !.lng = lng,
                              !.dist = DistanceFromCheckpoint(cp, lat, lng),
                              !.issued = @ + 1,
                              !.late = evals[e].cancelled]]
  /\ UNCHANGED <<ui, refs, cam, inits, cancels, store, time, remote, others, sessionInserts, ignored>>

NextScanId ==
  IF scans = {} THEN 1
  ELSE (CHOOSE n \in { s.id : s \in scans } : \A s \in scans : s.id <= n) + 1

(* public.scans has no constraint over guard_id, checkpoint_id and scanned_at: *)
(* an insert commits whatever rows the table holds                             *)
CommitsUnlessInWindow(row, rows) ==
  \A s \in rows :
    ~(/\ s.guard_id = row.guard_id
      /\ s.checkpoint_id = row.checkpoint_id
      /\ InWindow(s.scanned_at, FiveMinutesAgo(row.scanned_at)))
Commits(row, rows) == TRUE

(* the row the table gets: id and scanned_at are the column defaults *)
ScanRow(data, e) ==
  [id |-> NextScanId, guard_id |-> data.guard_id, guard_name |-> data.guard_name,
   checkpoint_id |-> data.checkpoint_id,
   checkpoint_name |-> data.checkpoint_name, scanned_at |-> clock,
   latitude |-> data.latitude, longitude |-> data.longitude, eval |-> e]

(* the insert returned: lines 319-344. ok is FALSE when the insert failed, *)
(* and then the table has no new row                                       *)
InsertReturned(e, ok, message) ==
  /\ evals[e].pc = "insert"
  /\ ok => message = ""
  /\ LET ev == [evals[e] EXCEPT !.fault = IF ok THEN "" ELSE "insert"]
         cp == Val(ev.cp)
         newScan == ScanRow(ScanData(ev, cp), e)
         committed == ok /\ Commits(newScan, scans)
     IN /\ scans' = IF committed THEN scans \cup {newScan} ELSE scans
        /\ sessionInserts' = IF committed /\ ev.current THEN sessionInserts + 1
                              ELSE sessionInserts
        /\ IF InsertError(ok)
             THEN /\ Finish(e, "error", FailedMessage(ScanFailedText(message)), ev)
                  /\ UNCHANGED <<lastScan, toast>>
             ELSE /\ lastScan' = IF ok THEN newScan.id ELSE 0
                  /\ IF isTooFar(cp, ev.dist) /\ Truthy(ev.dist)
                       THEN /\ Finish(e, "location_warning", TooFarMessage(Val(ev.dist)), ev)
                            /\ UNCHANGED toast
                       ELSE /\ scanStatus' = "success"
                            /\ toast' = ev.dist
                            /\ evals' = [evals EXCEPT ![e] =
                                           [ev EXCEPT !.pc = "done", !.outcome = "success"]]
                            /\ UNCHANGED errorMessage
  /\ UNCHANGED <<refs, cam, inits, cancels, checkpoints, time, remote, others, ignored>>

(* ------------------------------------------------------------------ *)
(* Environment                                                         *)
(* ------------------------------------------------------------------ *)
TickSteps == {FiveMinutes - 1, FiveMinutes, FiveMinutes + 1}

Tick(d) ==
  /\ ticks < MaxTicks
  /\ clock' = clock + d
  /\ ticks' = ticks + 1
  /\ UNCHANGED <<screen, store, remote, others>>

(* another device runs the same evaluation for guard g: its duplicate query *)
(* returned no row                                                         *)
OtherDeviceQuery(g, checkpointId) ==
  /\ remote.pc = "none"
  /\ g \in users
  /\ Cardinality({ s \in scans : s.eval = 0 }) < MaxOther
  /\ \E cp \in checkpoints : cp.id = checkpointId
  /\ { s \in scans : /\ s.guard_id = g
                      /\ s.checkpoint_id = checkpointId
                      /\ InWindow(s.scanned_at, FiveMinutesAgo(clock)) } = {}
  /\ remote' = [pc |-> "passed", guard_id |-> g, checkpointId |-> checkpointId]
  /\ UNCHANGED <<screen, store, time, others>>

(* the insert of the evaluation of the other device commits *)
OtherDeviceScan(g, checkpointId) ==
  /\ remote = [pc |-> "passed", guard_id |-> g, checkpointId |-> checkpointId]
  /\ g \in users
  /\ \E cp \in checkpoints :
       /\ cp.id = checkpointId
       /\ scans' = scans \cup
            { [id |-> NextScanId, guard_id |-> g, guard_name |-> GuardName(g),
               checkpoint_id |-> cp.id, checkpoint_name |-> cp.name,
               scanned_at |-> clock, latitude |-> Null, longitude |-> Null,
               eval |-> 0] }
  /\ remote' = NoRemote
  /\ UNCHANGED <<screen, checkpoints, time, others>>

(* ------------------------------------------------------------------ *)
(* Specifications                                                      *)
(* ------------------------------------------------------------------ *)
(* the scan screen under every interleaving of its handlers; one payload, *)
(* one failure of each kind, the clock standing still                    *)
UIPayloads == { <<Prefix, "cpB">> }
UIGeoAnswers == { GeoFail }
UIStartFailures == { f \in StartFailures : f.message = "Scanner UI not ready. Please try again." }
UIInsertErrors == { "" }

Next ==
  \/ \E i \in InitIds : InitializeScanner(i)
  \/ \E i \in InitIds : InitCreate(i)
  \/ \E i \in InitIds : InitStarted(i)
  \/ \E i \in InitIds, err \in UIStartFailures : InitPreflightFailed(i, err)
  \/ \E i \in InitIds, err \in UIStartFailures : InitStartFailed(i, err)
  \/ \E i \in InitIds : InitCatchStopped(i)
  \/ ResetClick
  \/ \E c \in CancelIds : CancelClick(c)
  \/ \E c \in CancelIds : CancelStopped(c)
  \/ \E i \in InitIds, t \in UIPayloads : HandleScanIgnored(i, t)
  \/ \E i \in InitIds, t \in UIPayloads : HandleScanSuccess(i, t)
  \/ \E e \in EvalIds : ScanStopped(e)
  \/ \E e \in EvalIds, ok \in BOOLEAN : LookupReturned(e, ok)
  \/ \E e \in EvalIds, ok \in BOOLEAN : DuplicateReturned(e, ok)
  \/ \E e \in EvalIds, answer \in UIGeoAnswers : GeolocationReturned(e, answer)
  \/ \E e \in EvalIds, ok \in BOOLEAN, message \in UIInsertErrors :
       InsertReturned(e, ok, message)

Spec == Init /\ [][Next]_vars

(* one scanning session, no cancel and no start-up failure: the decision *)
(* of the evaluation over every payload, location answer, store failure, *)
(* clock and content of the scan ledger                                  *)
NextScan ==
  \/ \E i \in InitIds : InitializeScanner(i)
  \/ \E i \in InitIds : InitCreate(i)
  \/ \E i \in InitIds : InitStarted(i)
  \/ \E i \in InitIds, t \in Payloads : HandleScanSuccess(i, t)
  \/ \E e \in EvalIds : ScanStopped(e)
  \/ \E e \in EvalIds, ok \in BOOLEAN : LookupReturned(e, ok)
  \/ \E e \in EvalIds, ok \in BOOLEAN : DuplicateReturned(e, ok)
  \/ \E e \in EvalIds, answer \in GeoAnswers : GeolocationReturned(e, answer)
  \/ \E e \in EvalIds, ok \in BOOLEAN, message \in InsertErrorMessages :
       InsertReturned(e, ok, message)
  \/ \E d \in TickSteps : Tick(d)
  \/ \E g \in Guards, id \in OtherDeviceCheckpoints : OtherDeviceQuery(g, id)
  \/ \E g \in Guards, id \in OtherDeviceCheckpoints : OtherDeviceScan(g, id)

SpecScan == Init /\ [][NextScan]_vars

(* the start of the scanner under every failure of its steps: the errors *)
(* initializeScanner throws itself fail it before the scanner is created, *)
(* a rejection of the platform fails it there (getUserMedia) or in        *)
(* html5Qrcode.start; Try Again and Cancel lead back to the idle view     *)
NextStart ==
  \/ \E i \in InitIds : InitializeScanner(i)
  \/ \E i \in InitIds : InitCreate(i)
  \/ \E i \in InitIds : InitStarted(i)
  \/ \E i \in InitIds, err \in StartFailures : InitPreflightFailed(i, err)
  \/ \E i \in InitIds, err \in PlatformFailures : InitStartFailed(i, err)
  \/ \E i \in InitIds : InitCatchStopped(i)
  \/ ResetClick
  \/ \E c \in CancelIds : CancelClick(c)
  \/ \E c \in CancelIds : CancelStopped(c)

SpecStart == Init /\ [][NextStart]_vars

(* ------------------------------------------------------------------ *)
(* useLocationTracking: the location reporter and public.guard_locations *)
(* ------------------------------------------------------------------ *)

(* the guard signed in on a tab *)
TabGuard(t) == USER

(* the positions navigator.geolocation.getCurrentPosition reports to a tab *)
Positions == { <<la, lo>> \in Latitudes \X Longitudes : la = lo }

UPDATE_INTERVAL == 30000
MillisecondsPerSecond == 1000

(* the object updateLocation hands to upsert *)
LocationRow(g, latitude, longitude, now) ==
  [guard_id |-> g, guard_name |-> GuardName(g), latitude |-> latitude,
   longitude |-> longitude, status |-> "on_patrol", updated_at |-> now]

(* a request to the store: the upsert of updateLocation or the update of setOffline *)
UpsertWrite(t, latitude, longitude, now) ==
  [tab |-> t, kind |-> "upsert",
   row |-> LocationRow(TabGuard(t), latitude, longitude, now)]
OfflineWrite(t, now) ==
  [tab |-> t, kind |-> "offline",
   row |-> [guard_id |-> TabGuard(t), status |-> "offline", updated_at |-> now]]

(* .upsert(row, { onConflict: 'guard_id' }) over the unique index on guard_id: *)
(* INSERT .. ON CONFLICT (guard_id) DO UPDATE SET every column of the row;     *)
(* InsertRow is the INSERT with no conflict target and no index                *)
InsertRow(rows, row) == rows \cup {row}
Upsert(rows, row) == { r \in rows : r.guard_id # row.guard_id } \cup {row}

(* .update({ status: 'offline', updated_at }).eq('guard_id', user.id): the *)
(* two columns of the rows of the guard; no row, no change                 *)
UpdateOffline(rows, g, now) ==
  { IF r.guard_id = g THEN [r EXCEPT !.status = "offline", !.updated_at = now] ELSE r :
      r \in rows }

ApplyWrite(rows, w) ==
  IF w.kind = "upsert" THEN Upsert(rows, w.row)
  ELSE UpdateOffline(rows, w.row.guard_id, w.row.updated_at)

(* getAndUpdateLocation: one more position request waits for its callback *)
Requested(tab) == [tab EXCEPT !.pending = @ + 1]

(* the effect runs: the initial request, then the interval timer *)
Mount(t) ==
  /\ ~tabs[t].mounted /\ ~tabs[t].torn
  /\ requests < MaxRequests
  /\ tabs' = [tabs EXCEPT ![t] = [Requested(@) EXCEPT !.mounted = TRUE, !.timer = TRUE]]
  /\ requests' = requests + 1
  /\ UNCHANGED <<screen, store, time, remote, readers, accounts, logs, guard_locations, sent>>

(* the interval fires *)
IntervalFires(t) ==
  /\ tabs[t].timer
  /\ requests < MaxRequests
  /\ tabs' = [tabs EXCEPT ![t] = Requested(@)]
  /\ requests' = requests + 1
  /\ UNCHANGED <<screen, store, time, remote, readers, accounts, logs, guard_locations, sent>>

(* the success callback of getCurrentPosition: updateLocation sends its upsert. *)
(* Nothing of the cleanup withdraws a request already made.                     *)
PositionSuccess(t, latitude, longitude) ==
  /\ tabs[t].pending > 0
  /\ LET w == UpsertWrite(t, latitude, longitude, clock)
     IN /\ tabs' = [tabs EXCEPT ![t].pending = @ - 1, ![t].writes = @ \cup {w}]
        /\ sent' = sent \cup {w}
  /\ UNCHANGED <<screen, store, time, remote, readers, accounts, logs, guard_locations, requests>>

(* what the error callback of getCurrentPosition leaves of the interval timer: *)
(* console.log and nothing else                                               *)
ClearedOnError(timer) == FALSE
TimerAfterError(timer) == timer

(* the error callback of getCurrentPosition: logged *)
PositionError(t) ==
  /\ tabs[t].pending > 0
  /\ tabs' = [tabs EXCEPT ![t].pending = @ - 1, ![t].timer = TimerAfterError(@)]
  /\ UNCHANGED <<screen, store, time, remote, readers, accounts, logs, guard_locations, sent, requests>>

(* the cleanup of the effect (unmount, sign-out): clearInterval, setOffline() *)
Teardown(t) ==
  /\ tabs[t].mounted
  /\ LET w == OfflineWrite(t, clock)
     IN /\ tabs' = [tabs EXCEPT ![t].mounted = FALSE, ![t].torn = TRUE, ![t].timer = FALSE,
                                ![t].writes = @ \cup {w}]
        /\ sent' = sent \cup {w}
  /\ UNCHANGED <<screen, store, time, remote, readers, accounts, logs, guard_locations, requests>>

(* beforeunload: setOffline(), then the page, its timer and its callbacks are gone *)
Unload(t) ==
  /\ tabs[t].mounted
  /\ LET w == OfflineWrite(t, clock)
     IN /\ tabs' = [tabs EXCEPT ![t].mounted = FALSE, ![t].torn = TRUE, ![t].timer = FALSE,
                                ![t].pending = 0, ![t].writes = @ \cup {w}]
        /\ sent' = sent \cup {w}
  /\ UNCHANGED <<screen, store, time, remote, readers, accounts, logs, guard_locations, requests>>

(* the store answers a request of the tab, in any order; a failure is logged *)
WriteReturns(t, ok) ==
  /\ \E w \in tabs[t].writes :
       /\ tabs' = [tabs EXCEPT ![t].writes = @ \ {w}, ![t].lost = @ \/ ~ok]
       /\ guard_locations' = IF ok THEN ApplyWrite(guard_locations, w) ELSE guard_locations
  /\ UNCHANGED <<screen, store, time, remote, readers, accounts, logs, sent, requests>>

NextTrack ==
  \/ \E t \in TabIds : Mount(t)
  \/ \E t \in TabIds : IntervalFires(t)
  \/ \E t \in TabIds : \E p \in Positions : PositionSuccess(t, p[1], p[2])
  \/ \E t \in TabIds : PositionError(t)
  \/ \E t \in TabIds : Teardown(t)
  \/ \E t \in TabIds : Unload(t)
  \/ \E t \in TabIds : \E ok \in BOOLEAN : WriteReturns(t, ok)
  \/ Tick(UPDATE_INTERVAL \div MillisecondsPerSecond)

SpecTrack == Init /\ [][NextTrack]_vars

(* ------------------------------------------------------------------ *)
(* The store: accounts, the create-guard and delete-guard functions,     *)
(* checkpoint management and the scan logs                               *)
(* ------------------------------------------------------------------ *)

(* public.has_role(_user_id, 'admin') *)
has_role(u, role) == \E r \in user_roles : r.user_id = u /\ r.role = role

(* auth.admin.deleteUser: the row of auth.users goes, and with it the rows that *)
(* reference it ON DELETE CASCADE: profiles, user_roles and scans.guard_id;     *)
(* guard_locations.guard_id is no foreign key. ScansOfEveryGuard is scans       *)
(* without the cascade of guard_id.                                             *)
UsersWithout(u) == users \ {u}
ProfilesWithout(u) == { p \in profiles : p.user_id # u }
RolesWithout(u) == { r \in user_roles : r.user_id # u }
ScansOfEveryGuard(u) == scans
ScansWithoutGuard(u) == { r \in scans : r.guard_id # u }

(* checkpoint_id REFERENCES public.checkpoints(id) ON DELETE CASCADE *)
ScansWithoutCheckpoint(id) == { r \in scans : r.checkpoint_id # id }

(* the requests a caller can send *)
Bearer == "Bearer "
Headers ==
  { Null, Some(<<>>), Some(<<Bearer, ADMIN>>), Some(<<Bearer, USER>>),
    Some(<<Bearer, "garbage">>) }
PASSWORD_MIN == 6
CreateBodies ==
  { [email |-> "new@site", password |-> "secret", fullName |-> "New Guard"],
    [email |-> "new@site", password |-> "12345", fullName |-> "New Guard"],
    [email |-> "new@site", password |-> "secret", fullName |-> ""] }
DeleteBodies == { [userId |-> u] : u \in {"", ADMIN, USER} }
Bodies(fn) == IF fn = "create-guard" THEN CreateBodies ELSE DeleteBodies

(* authHeader.replace("Bearer ", ""): the first occurrence goes *)
Replace(chunks, chunk) ==
  IF \E i \in 1..Len(chunks) : chunks[i] = chunk
  THEN LET i == CHOOSE j \in 1..Len(chunks) :
                  chunks[j] = chunk /\ \A h \in 1..(j - 1) : chunks[h] # chunk
       IN SubSeq(chunks, 1, i - 1) \o SubSeq(chunks, i + 1, Len(chunks))
  ELSE chunks

(* !authHeader: no header, or the empty string *)
NoAuthHeader(header) == header = Null \/ Val(header) = <<>>

(* auth.getUser(token): the user of a token of an existing account *)
getUser(token, ok) ==
  IF ok /\ Len(token) = 1 /\ token[1] \in users THEN Some(token[1]) ELSE Null

(* .from("user_roles").select("role").eq("user_id", user.id).eq("role", "admin"); *)
(* a failed query gives data: null                                              *)
AdminRoles(u, ok) ==
  IF ok THEN Some({ r \in user_roles : r.user_id = u /\ r.role = "admin" }) ELSE Null

(* !roles || roles.length === 0 *)
NeverRefused(roles) == FALSE
Refused(roles) == roles = Null \/ Val(roles) = {}

(* the catch: status 400 with the message of the error *)
Failed(call, message) ==
  [NoCall EXCEPT !.fn = call.fn, !.pc = "done", !.admin = call.admin,
                 !.response = [status |-> 400, error |-> message]]
Succeeded(call) ==
  [NoCall EXCEPT !.fn = call.fn, !.pc = "done", !.admin = call.admin,
                 !.response = [status |-> 200, error |-> ""]]

(* the checks of the request body *)
BodyError(fn, body, user) ==
  IF fn = "create-guard"
  THEN IF body.email = "" \/ body.password = "" \/ body.fullName = ""
       THEN "Missing required fields: email, password, fullName"
       ELSE IF Len(body.password) < PASSWORD_MIN
            THEN "Password must be at least 6 characters"
            ELSE ""
  ELSE IF body.userId = ""
       THEN "Missing required field: userId"
       ELSE IF body.userId = user THEN "Cannot delete your own account" ELSE ""

NextCall == IF \E k \in CallIds : calls[k].pc = "none"
            THEN CHOOSE k \in CallIds : calls[k].pc = "none" /\ \A h \in 1..(k - 1) : calls[h].pc # "none"
            ELSE 0

(* the handler up to its first await *)
Invoke(k, fn, header, body) ==
  /\ k = NextCall
  /\ LET call == [calls[k] EXCEPT !.fn = fn, !.header = header, !.body = Some(body)]
     IN calls' = [calls EXCEPT ![k] =
          IF NoAuthHeader(header)
          THEN Failed(call, "No authorization header")
          ELSE [call EXCEPT !.pc = "getUser", !.token = Replace(Val(header), Bearer)]]
  /\ UNCHANGED <<screen, store, time, remote, readers, tracking, logs, users, profiles, user_roles>>

(* await supabaseAdmin.auth.getUser(token) *)
GetUserReturns(k, ok) ==
  /\ calls[k].pc = "getUser"
  /\ LET user == getUser(calls[k].token, ok)
     IN calls' = [calls EXCEPT ![k] =
          IF user = Null
          THEN Failed(@, "Invalid token")
          ELSE [@ EXCEPT !.pc = "roles", !.user = user]]
  /\ UNCHANGED <<screen, store, time, remote, readers, tracking, logs, users, profiles, user_roles>>

(* the query of the admin role returns; then the body is read and checked *)
RolesReturn(k, ok) ==
  /\ calls[k].pc = "roles"
  /\ LET call == calls[k]
         roles == AdminRoles(Val(call.user), ok)
         message == BodyError(call.fn, Val(call.body), Val(call.user))
         asked == [call EXCEPT !.admin = has_role(Val(call.user), "admin")]
     IN calls' = [calls EXCEPT ![k] =
          IF Refused(roles)
          THEN Failed(asked, "Unauthorized: Admin access required")
          ELSE IF message # ""
               THEN Failed(asked, message)
               ELSE [asked EXCEPT !.pc = IF call.fn = "create-guard" THEN "createUser"
                                         ELSE "deleteUser"]]
  /\ UNCHANGED <<screen, store, time, remote, readers, tracking, logs, users, profiles, user_roles>>

NewUserId(k) == "n" \o ToString(k)

(* auth.admin.createUser returns; on_auth_user_created has inserted the profile *)
CreateUserReturns(k, ok) ==
  /\ calls[k].pc = "createUser"
  /\ calls[k].fn = "create-guard"
  /\ IF ok
     THEN /\ users' = users \cup {NewUserId(k)}
          /\ profiles' = profiles \cup
               {[user_id |-> NewUserId(k), full_name |-> Val(calls[k].body).fullName]}
          /\ calls' = [calls EXCEPT ![k].pc = "profile", ![k].created = NewUserId(k)]
     ELSE /\ calls' = [calls EXCEPT ![k] = Failed(@, "User not allowed")]
          /\ UNCHANGED <<users, profiles>>
  /\ UNCHANGED <<screen, store, time, remote, readers, tracking, logs, user_roles>>

(* .from("profiles").update({ full_name }).eq("user_id", newUser.user.id) *)
ProfileUpdated(k) ==
  /\ calls[k].pc = "profile"
  /\ profiles' = { IF p.user_id = calls[k].created
                   THEN [p EXCEPT !.full_name = Val(calls[k].body).fullName] ELSE p :
                     p \in profiles }
  /\ calls' = [calls EXCEPT ![k].pc = "role"]
  /\ UNCHANGED <<screen, store, time, remote, readers, tracking, logs, users, user_roles>>

(* the insert of the guard role returns: the answer, or the way to the rollback *)
RoleInsertReturns(k, ok) ==
  /\ calls[k].pc = "role"
  /\ IF ok /\ calls[k].created \in users
     THEN /\ user_roles' = user_roles \cup {[user_id |-> calls[k].created, role |-> "guard"]}
          /\ calls' = [calls EXCEPT ![k] = Succeeded(@)]
     ELSE /\ calls' = [calls EXCEPT ![k].pc = "rollback"]
          /\ UNCHANGED user_roles
  /\ UNCHANGED <<screen, store, time, remote, readers, tracking, logs, users, profiles>>

(* Rollback: await auth.admin.deleteUser(newUser.user.id), whose result is *)
(* not read, then throw roleError. ok is FALSE when the deletion failed,   *)
(* and then the account stays                                              *)
RollbackReturns(k, ok) ==
  /\ calls[k].pc = "rollback"
  /\ IF ok
     THEN /\ users' = UsersWithout(calls[k].created)
          /\ profiles' = ProfilesWithout(calls[k].created)
          /\ user_roles' = RolesWithout(calls[k].created)
          /\ scans' = ScansWithoutGuard(calls[k].created)
     ELSE UNCHANGED <<users, profiles, user_roles, scans>>
  /\ calls' = [calls EXCEPT ![k] = Failed(@, "role assignment failed")]
  /\ UNCHANGED <<screen, checkpoints, time, remote, readers, tracking, logs>>

(* auth.admin.deleteUser(userId) returns *)
DeleteUserReturns(k, ok) ==
  /\ calls[k].pc = "deleteUser"
  /\ calls[k].fn = "delete-guard"
  /\ LET userId == Val(calls[k].body).userId
     IN IF ok /\ userId \in users
        THEN /\ users' = UsersWithout(userId)
             /\ profiles' = ProfilesWithout(userId)
             /\ user_roles' = RolesWithout(userId)
             /\ scans' = ScansWithoutGuard(userId)
             /\ calls' = [calls EXCEPT ![k] = Succeeded(@)]
        ELSE /\ calls' = [calls EXCEPT ![k] = Failed(@, "User not found")]
             /\ UNCHANGED <<users, profiles, user_roles, scans>>
  /\ UNCHANGED <<screen, checkpoints, time, remote, readers, tracking, logs>>

(* createCheckpoint by a signed-in user; the insert policy admits admins only *)
NewCheckpointIds == { <<"cpC">> }
(* lat and lng are the parsed fields of the dialog, null when left empty *)
CreateCheckpointAt(u, id, lat, lng) ==
  /\ u \in users
  /\ has_role(u, "admin")
  /\ ~\E cp \in checkpoints : cp.id = id
  /\ checkpoints' = checkpoints \cup {Checkpoint(id, "Yard", lat, lng)}
  /\ UNCHANGED <<screen, scans, time, remote, others>>

CreateCheckpoint(u, id) == CreateCheckpointAt(u, id, Null, Null)

(* deleteCheckpoint by a signed-in user; the delete policy shows admins the rows. *)
(* The scans of the checkpoint go with it.                                        *)
DeleteCheckpoint(u, id) ==
  /\ u \in users
  /\ has_role(u, "admin")
  /\ \E cp \in checkpoints : cp.id = id
  /\ checkpoints' = { cp \in checkpoints : cp.id # id }
  /\ scans' = ScansWithoutCheckpoint(id)
  /\ UNCHANGED <<screen, time, remote, others>>

(* fetchData of ScanLogs: the rows the select policies show the user *)
FetchLogs(u) ==
  /\ u \in users
  /\ logs' = [logs EXCEPT !.rows =
       { r \in scans : has_role(u, "admin") \/ r.guard_id = u }]
  /\ UNCHANGED <<screen, store, time, remote, readers, tracking, accounts>>

(* exportCSV: a file of the rows on the screen *)
ExportCSV ==
  /\ logs' = [logs EXCEPT !.csv = logs.rows]
  /\ UNCHANGED <<screen, store, time, remote, readers, tracking, accounts>>

(* the insert of the other device fails: a row it references is gone *)
OtherDeviceScanFailed(g, checkpointId) ==
  /\ remote = [pc |-> "passed", guard_id |-> g, checkpointId |-> checkpointId]
  /\ (g \notin users \/ ~\E cp \in checkpoints : cp.id = checkpointId)
  /\ remote' = NoRemote
  /\ UNCHANGED <<screen, store, time, others>>

Functions == {"create-guard", "delete-guard"}
ManagedCheckpointIds == OtherDeviceCheckpoints \cup NewCheckpointIds

(* the two functions under every request and every interleaving of their awaits *)
NextAccounts ==
  \/ \E k \in CallIds, fn \in Functions, header \in Headers :
       \E body \in Bodies(fn) : Invoke(k, fn, header, body)
  \/ \E k \in CallIds, ok \in BOOLEAN : GetUserReturns(k, ok)
  \/ \E k \in CallIds, ok \in BOOLEAN : RolesReturn(k, ok)
  \/ \E k \in CallIds, ok \in BOOLEAN : CreateUserReturns(k, ok)
  \/ \E k \in CallIds : ProfileUpdated(k)
  \/ \E k \in CallIds, ok \in BOOLEAN : RoleInsertReturns(k, ok)
  \/ \E k \in CallIds, ok \in BOOLEAN : RollbackReturns(k, ok)
  \/ \E k \in CallIds, ok \in BOOLEAN : DeleteUserReturns(k, ok)

SpecAccounts == Init /\ [][NextAccounts]_vars

(* the flows that touch public.scans or the rows it references: the scan of a *)
(* guard, checkpoint management, the scan logs, and the removal of a guard by *)
(* an administrator                                                           *)
RemovalHeaders == { Some(<<Bearer, ADMIN>>) }
RemovalBodies == { [userId |-> u] : u \in Guards }

NextStore ==
  \/ \E k \in CallIds, header \in RemovalHeaders, body \in RemovalBodies :
       Invoke(k, "delete-guard", header, body)
  \/ \E k \in CallIds, ok \in BOOLEAN : GetUserReturns(k, ok)
  \/ \E k \in CallIds, ok \in BOOLEAN : RolesReturn(k, ok)
  \/ \E k \in CallIds, ok \in BOOLEAN : DeleteUserReturns(k, ok)
  \/ \E u \in {ADMIN, USER}, id \in NewCheckpointIds : CreateCheckpoint(u, id)
  \/ \E u \in {ADMIN, USER}, id \in ManagedCheckpointIds : DeleteCheckpoint(u, id)
  \/ \E u \in {ADMIN, USER} : FetchLogs(u)
  \/ ExportCSV
  \/ \E g \in Guards, id \in OtherDeviceCheckpoints : OtherDeviceQuery(g, id)
  \/ \E g \in Guards, id \in OtherDeviceCheckpoints : OtherDeviceScan(g, id)
  \/ \E g \in Guards, id \in OtherDeviceCheckpoints : OtherDeviceScanFailed(g, id)

SpecStore == Init /\ [][NextStore]_vars

(* the distance of a scan over checkpoints the administrator places in  *)
(* either hemisphere and device positions around them: one scanning     *)
(* session, every store query answered                                  *)
PlacedLatitudes == (0 - MaxCoord)..MaxCoord
PlacedLongitudes == {0 - 1, 1, 2}
PlacedAnswers == { <<la, lo>> : la \in PlacedLatitudes, lo \in PlacedLongitudes }
PlacedPayloads == { <<Prefix, "cpB">>, <<Prefix, "cpC">> }

NextDistance ==
  \/ \E id \in NewCheckpointIds, la \in PlacedLatitudes, lo \in PlacedLongitudes :
       CreateCheckpointAt(ADMIN, id, Some(la), Some(lo))
  \/ \E i \in InitIds : InitializeScanner(i)
  \/ \E i \in InitIds : InitCreate(i)
  \/ \E i \in InitIds : InitStarted(i)
  \/ \E i \in InitIds, t \in PlacedPayloads : HandleScanSuccess(i, t)
  \/ \E e \in EvalIds : ScanStopped(e)
  \/ \E e \in EvalIds : LookupReturned(e, TRUE)
  \/ \E e \in EvalIds : DuplicateReturned(e, TRUE)
  \/ \E e \in EvalIds, answer \in PlacedAnswers : GeolocationReturned(e, answer)
  \/ \E e \in EvalIds : InsertReturned(e, TRUE, "")
  \/ ResetClick

SpecDistance == Init /\ [][NextDistance]_vars

(* ------------------------------------------------------------------ *)
(* AdminDashboard: fetchStats                                            *)
(* ------------------------------------------------------------------ *)
SecondsPerDay == 86400

(* today.setHours(0, 0, 0, 0): the local midnight before now *)
StartOfDay(now) == now - (now % SecondsPerDay)

(* Math.round of the quotient n / d of two counts, d > 0: halves go up; *)
(* RoundDown is Math.floor                                              *)
RoundDown(n, d) == n \div d
Round(n, d) == (2 * n + d) \div (2 * d)

(* checkpointCount ? Math.round((uniqueCheckpoints / checkpointCount) * 100) : 0 *)
Coverage(uniqueCheckpoints, checkpointCount) ==
  IF Truthy(checkpointCount) THEN Round(uniqueCheckpoints * 100, Val(checkpointCount))
  ELSE 0

(* count || 0 *)
OrZero(count) == IF Truthy(count) THEN Val(count) ELSE 0

(* a count query: the number of rows, or null when the request failed *)
Count(rows, ok) == IF ok THEN Some(Cardinality(rows)) ELSE Null

(* .gte('scanned_at', today.toISOString()) *)
ScansSince(today) == { s \in scans : s.scanned_at >= today }

(* fetchStats is called, on mount: the count of the guards is asked for *)
FetchStats ==
  /\ fetch.pc = "idle"
  /\ fetch' = [NoFetch EXCEPT !.pc = "guards"]
  /\ UNCHANGED <<screen, store, time, remote, tracking, accounts, logs, stats,
                 guardLocations>>

(* the count of the guards returned; the count of the checkpoints is asked for *)
GuardCountReturned(ok) ==
  /\ fetch.pc = "guards"
  /\ fetch' = [fetch EXCEPT !.pc = "checkpoints",
                 !.guardCount = Count({ r \in user_roles : r.role = "guard" }, ok)]
  /\ UNCHANGED <<screen, store, time, remote, tracking, accounts, logs, stats,
                 guardLocations>>

(* the count of the checkpoints returned; today is taken, the count of the *)
(* scans of today is asked for                                             *)
CheckpointCountReturned(ok) ==
  /\ fetch.pc = "checkpoints"
  /\ fetch' = [fetch EXCEPT !.pc = "scans",
                 !.checkpointCount = Count(checkpoints, ok),
                 !.today = StartOfDay(clock)]
  /\ UNCHANGED <<screen, store, time, remote, tracking, accounts, logs, stats,
                 guardLocations>>

(* the count of the scans returned; their checkpoint ids are asked for *)
ScanCountReturned(ok) ==
  /\ fetch.pc = "scans"
  /\ fetch' = [fetch EXCEPT !.pc = "today",
                 !.scanCount = Count(ScansSince(fetch.today), ok)]
  /\ UNCHANGED <<screen, store, time, remote, tracking, accounts, logs, stats,
                 guardLocations>>

(* the checkpoint ids returned (no data when the request failed): setStats *)
TodayCheckpointsReturned(ok) ==
  /\ fetch.pc = "today"
  /\ LET todayCheckpoints == IF ok THEN { s.checkpoint_id : s \in ScansSince(fetch.today) }
                             ELSE {}
         uniqueCheckpoints == Cardinality(todayCheckpoints)
     IN /\ stats' = [totalGuards |-> OrZero(fetch.guardCount),
                     totalCheckpoints |-> OrZero(fetch.checkpointCount),
                     todayScans |-> OrZero(fetch.scanCount),
                     coveragePercent |-> Coverage(uniqueCheckpoints, fetch.checkpointCount)]
        /\ fetch' = [fetch EXCEPT !.pc = "done", !.answered = ok,
                                  !.unique = uniqueCheckpoints]
  /\ UNCHANGED <<screen, store, time, remote, tracking, accounts, logs, guardLocations>>

(* the dashboard beside the flows that change checkpoints and scans; a day passes *)
StatsCheckpointIds == { <<"cpZ">>, <<"cpC">> }
AllCheckpointIds == { <<"cpA">>, <<"cpB">>, <<"cpZ">>, <<"cpC">> }

NextStats ==
  \/ FetchStats
  \/ \E ok \in BOOLEAN : GuardCountReturned(ok)
  \/ \E ok \in BOOLEAN : CheckpointCountReturned(ok)
  \/ \E ok \in BOOLEAN : ScanCountReturned(ok)
  \/ \E ok \in BOOLEAN : TodayCheckpointsReturned(ok)
  \/ \E id \in NewCheckpointIds : CreateCheckpoint(ADMIN, id)
  \/ \E id \in AllCheckpointIds : DeleteCheckpoint(ADMIN, id)
  \/ \E id \in StatsCheckpointIds : OtherDeviceQuery(OTHER_GUARD, id)
  \/ \E id \in StatsCheckpointIds : OtherDeviceScan(OTHER_GUARD, id)
  \/ \E id \in StatsCheckpointIds : OtherDeviceScanFailed(OTHER_GUARD, id)
  \/ Tick(SecondsPerDay)

SpecStats == Init /\ [][NextStats]_vars

(* ------------------------------------------------------------------ *)
(* LiveGuardMap and GuardMapView: the readers of public.guard_locations  *)
(* ------------------------------------------------------------------ *)
STALE_MINUTES == 5

(* minutesAgo > 5, for (Date.now() - new Date(updatedAt).getTime()) / 60000, *)
(* the clock counting seconds; StaleFrom is minutesAgo >= 5                   *)
StaleFrom(updatedAt, now) == now - updatedAt >= STALE_MINUTES * SecondsPerMinute
Stale(updatedAt, now) == now - updatedAt > STALE_MINUTES * SecondsPerMinute

getStatusColor(status, updatedAt, now) ==
  IF Stale(updatedAt, now) \/ status = "offline" THEN "bg-muted-foreground"
  ELSE IF status = "on_patrol" THEN "bg-success"
  ELSE "bg-warning"

getStatusLabel(status, updatedAt, now) ==
  IF Stale(updatedAt, now) THEN "Offline"
  ELSE IF status = "on_patrol" THEN "On Patrol"
  ELSE IF status = "idle" THEN "Idle"
  ELSE "Offline"

(* minutesAgo <= 5 && guard.status !== 'offline' *)
getGuardStatus(guard, now) == ~Stale(guard.updated_at, now) /\ guard.status # "offline"

activeGuards(now) ==
  { g \in guardLocations : ~Stale(g.updated_at, now) /\ g.status # "offline" }

(* guardLocations.length - activeGuards.length *)
OfflineCount(now) == Cardinality(guardLocations) - Cardinality(activeGuards(now))

(* fetchData: setGuardLocations(locations) *)
FetchData ==
  /\ guardLocations' = guard_locations
  /\ UNCHANGED <<screen, store, time, remote, tracking, accounts, logs, stats, fetch>>

(* the realtime callback for an INSERT or UPDATE: the row of the guard is replaced *)
RealtimeChange(guard_id) ==
  /\ \E row \in guard_locations :
       /\ row.guard_id = guard_id
       /\ guardLocations' = { g \in guardLocations : g.guard_id # row.guard_id } \cup {row}
  /\ UNCHANGED <<screen, store, time, remote, tracking, accounts, logs, stats, fetch>>

(* the map beside one reporting tab, while time passes *)
MapTabs == { "tab1" }

NextMap ==
  \/ \E t \in MapTabs : Mount(t)
  \/ \E t \in MapTabs : IntervalFires(t)
  \/ \E t \in MapTabs : \E p \in Positions : PositionSuccess(t, p[1], p[2])
  \/ \E t \in MapTabs : Teardown(t)
  \/ \E t \in MapTabs : \E ok \in BOOLEAN : WriteReturns(t, ok)
  \/ FetchData
  \/ \E g \in Guards : RealtimeChange(g)
  \/ \E d \in TickSteps : Tick(d)

SpecMap == Init /\ [][NextMap]_vars

(* the removal of the signed-in guard's account, or of their own, by   *)
(* the administrator, while guards scan, the signed-in guard reports   *)
(* positions and the administrator reads the scan logs                 *)
AccountBodies == { [userId |-> u] : u \in {ADMIN, USER} }

NextRemoval ==
  \/ \E k \in CallIds, header \in RemovalHeaders, body \in AccountBodies :
       Invoke(k, "delete-guard", header, body)
  \/ \E k \in CallIds, ok \in BOOLEAN : GetUserReturns(k, ok)
  \/ \E k \in CallIds, ok \in BOOLEAN : RolesReturn(k, ok)
  \/ \E k \in CallIds, ok \in BOOLEAN : DeleteUserReturns(k, ok)
  \/ \E t \in MapTabs : Mount(t)
  \/ \E t \in MapTabs : \E p \in Positions : PositionSuccess(t, p[1], p[2])
  \/ \E t \in MapTabs : \E ok \in BOOLEAN : WriteReturns(t, ok)
  \/ \E g \in Guards, id \in OtherDeviceCheckpoints : OtherDeviceQuery(g, id)
  \/ \E g \in Guards, id \in OtherDeviceCheckpoints : OtherDeviceScan(g, id)
  \/ FetchLogs(ADMIN)

SpecRemoval == Init /\ [][NextRemoval]_vars

(* ------------------------------------------------------------------ *)
(* Properties                                                          *)
(* ------------------------------------------------------------------ *)
Started(e) == evals[e].pc # "none"
Done(e) == evals[e].pc = "done" /\ evals[e].outcome # ""
RowsOf(e) == { s \in scans : s.eval = e }
Known(checkpointId) == \E cp \in checkpoints : cp.id = checkpointId
(* the duplicate query of e has returned *)
PastDuplicateCheck(e) == evals[e].queried = 1 /\ evals[e].pc \in {"geo", "insert", "done"}
(* the duplicate query of e returned no row, and its scan was inserted *)
Recorded(e) ==
  /\ Done(e)
  /\ evals[e].existing = Some(0)
  /\ evals[e].outcome \in {"success", "location_warning"}

(* C1: in one scanning session (between two resetScanner calls) at most one  *)
(* decode callback starts an evaluation and at most one scan is inserted, no *)
(* evaluation issues a second insert, and a callback that finds the latch    *)
(* set changes neither the evaluations nor the store.                        *)
C1_SingleFlight ==
  /\ [](/\ Cardinality({ e \in EvalIds : evals[e].current }) <= 1
        /\ sessionInserts <= 1
        /\ \A e \in EvalIds : evals[e].issued <= 1)
  /\ [][(~ignored /\ ignored') => UNCHANGED <<scans, checkpoints, evals>>]_vars

C1_Witness ==
  /\ ignored
  /\ sessionInserts = 1
  /\ \E e \in EvalIds : evals[e].current /\ Done(e)

(* C2: an evaluation whose identifier matches no checkpoint issues no       *)
(* duplicate query, no geolocation request and no insert, leaves no row in  *)
(* the scan ledger, and ends with status error and the invalid-checkpoint   *)
(* message.                                                                 *)
C2_InvalidCheckpoint ==
  \A e \in EvalIds :
    (Started(e) /\ ~Known(evals[e].checkpointId)) =>
      /\ evals[e].queried = 0
      /\ evals[e].located = 0
      /\ evals[e].issued = 0
      /\ RowsOf(e) = {}
      /\ evals[e].pc \in {"stop", "lookup", "done"}
      /\ evals[e].pc = "done" =>
           /\ evals[e].outcome = "error"
           /\ scanStatus = "error"
           /\ errorMessage = InvalidMessage

C2_Witness ==
  \E e \in EvalIds :
    /\ Done(e)
    /\ ~Known(evals[e].checkpointId)
    /\ evals[e].fault = ""
    /\ scans # {}

(* C3: once the duplicate query has returned, an evaluation for which the   *)
(* ledger held a scan of this guard and this checkpoint less than five      *)
(* minutes old has ended as duplicate without issuing an insert; and an     *)
(* evaluation ends as duplicate only if the ledger held a scan of this      *)
(* guard and this checkpoint.                                               *)
C3_DuplicateRejected ==
  \A e \in EvalIds :
    PastDuplicateCheck(e) =>
      /\ (\E a \in evals[e].ages : a < FiveMinutes) =>
           (evals[e].outcome = "duplicate" /\ evals[e].issued = 0 /\ RowsOf(e) = {})
      /\ evals[e].outcome = "duplicate" => evals[e].ages # {}

(* C4 as stated: when the duplicate query returned its rows, the outcome is *)
(* duplicate exactly when a scan of this guard and this checkpoint is less  *)
(* than five minutes old; a scan exactly five minutes old is no duplicate.  *)
C4_BoundaryExclusive ==
  \A e \in EvalIds :
    (PastDuplicateCheck(e) /\ evals[e].existing # Null) =>
      (evals[e].outcome = "duplicate" <=> \E a \in evals[e].ages : a < FiveMinutes)

(* C4 amended: when the duplicate query returned its rows, the outcome is   *)
(* duplicate exactly when a scan of this guard and this checkpoint is at    *)
(* most five minutes old; a scan exactly five minutes old is a duplicate.   *)
C4_BoundaryInclusive ==
  \A e \in EvalIds :
    (PastDuplicateCheck(e) /\ evals[e].existing # Null) =>
      (evals[e].outcome = "duplicate" <=> \E a \in evals[e].ages : a <= FiveMinutes)

C4_Witness ==
  \E e \in EvalIds :
    /\ Done(e)
    /\ evals[e].outcome = "duplicate"
    /\ evals[e].ages = {FiveMinutes}

(* the allowed radius of a checkpoint: its distance column, 100 when unset *)
AllowedRadius(cp) == IF cp.distance = Null THEN DefaultDistance ELSE Val(cp.distance)

(* C5: a recorded scan of a checkpoint whose latitude and longitude are     *)
(* both non-null, with the device location obtained, is location_warning    *)
(* exactly when the distance between the two points exceeds the allowed     *)
(* radius, and the warning message carries that distance and that radius.   *)
C5_DistanceClassification ==
  \A e \in EvalIds :
    LET ev == evals[e] IN
    (Recorded(e) /\ Val(ev.cp).latitude # Null /\ Val(ev.cp).longitude # Null
       /\ ev.lat # Null /\ ev.lng # Null) =>
      LET cp == Val(ev.cp)
          d == calculateDistance(Val(ev.lat), Val(ev.lng), Val(cp.latitude), Val(cp.longitude))
      IN /\ ev.outcome = "location_warning" <=> d > AllowedRadius(cp)
         /\ ev.outcome = "location_warning" =>
              (errorMessage.d = Some(d) /\ errorMessage.max = Some(AllowedRadius(cp)))

(* C6: a recorded scan is success with no distance when the checkpoint      *)
(* lacks a coordinate or the device location was not obtained, and the      *)
(* distance is left out in these cases only.                                *)
C6_SkippedOnlyWithoutCoordinates ==
  \A e \in EvalIds :
    LET ev == evals[e] IN
    Recorded(e) =>
      LET cp == Val(ev.cp)
          skipped == cp.latitude = Null \/ cp.longitude = Null \/ ev.lat = Null
      IN /\ skipped => (ev.outcome = "success" /\ ev.dist = Null /\ toast = Null)
         /\ ev.dist = Null => skipped

(* C7: an evaluation that found its checkpoint and passed the duplicate     *)
(* check has issued exactly one insert once the location step is over,      *)
(* whatever the distance; the row carries the guard id, the checkpoint id   *)
(* and name and the coordinates the location step resolved, null for both   *)
(* when it failed; a recorded scan has exactly one row.                     *)
C7_AlwaysRecorded ==
  \A e \in EvalIds :
    LET ev == evals[e] IN
    /\ ev.pc = "geo" => ev.issued = 0
    /\ ev.pc = "insert" => ev.issued = 1
    /\ (Done(e) /\ PastDuplicateCheck(e) /\ ev.outcome # "duplicate") => ev.issued = 1
    /\ Cardinality(RowsOf(e)) <= 1
    /\ (Done(e) /\ ev.outcome \in {"success", "location_warning"}) =>
         Cardinality(RowsOf(e)) = 1
    /\ ev.lat = Null <=> ev.lng = Null
    /\ \A s \in RowsOf(e) :
         /\ s.guard_id = USER
         /\ s.guard_name = GuardName(USER)
         /\ s.checkpoint_id = ev.checkpointId
         /\ s.checkpoint_name = Val(ev.cp).name
         /\ s.latitude = ev.lat
         /\ s.longitude = ev.lng

C7_Witness ==
  \E e \in EvalIds :
    /\ Done(e)
    /\ evals[e].outcome = "location_warning"
    /\ \E s \in RowsOf(e) : s.latitude = Some(2) /\ s.longitude = Some(1)

(* C8: the step in which an evaluation ends after its checkpoint lookup or  *)
(* its insert failed sets status error with a message and changes neither   *)
(* the scan ledger nor the last scan; that evaluation has no row.           *)
C8_FailureWritesNothing ==
  /\ [](\A e \in EvalIds :
          (Done(e) /\ evals[e].fault \in {"lookup", "insert"}) =>
            (evals[e].outcome = "error" /\ RowsOf(e) = {}))
  /\ [][\A e \in EvalIds :
          (evals[e].pc # "done" /\ evals'[e].pc = "done"
             /\ evals'[e].fault \in {"lookup", "insert"}) =>
            /\ scanStatus' = "error"
            /\ errorMessage'.text # ""
            /\ scans' = scans
            /\ lastScan' = lastScan]_vars

C8_Witness ==
  \E e \in EvalIds :
    /\ Done(e)
    /\ evals[e].fault = "insert"
    /\ lastScan # 0
    /\ scanStatus = "error"

(* C9: every change of the status is idle -> scanning, scanning -> a        *)
(* terminal outcome, scanning -> idle or a terminal outcome -> idle.        *)
StatusStep(from, to) ==
  \/ from = to
  \/ from = "idle" /\ to = "scanning"
  \/ from = "scanning" /\ to \in Terminal
  \/ from = "scanning" /\ to = "idle"
  \/ from \in Terminal /\ to = "idle"

C9_StatusTransitions == [][StatusStep(scanStatus, scanStatus')]_vars

(* C10: no evaluation issues its insert after a Cancel that completed while *)
(* the evaluation was running.                                              *)
C10_NoInsertAfterCancel == \A e \in EvalIds : ~evals[e].late

(* C11: at most one Html5Qrcode instance is starting or running at a time. *)
C11_ExclusiveCamera ==
  Cardinality({ i \in InitIds : cam[i] \in {"starting", "running"} }) <= 1

(* C12: every terminal status shows its reset button, a step from a terminal *)
(* status to idle leaves the latch cleared, and in every idle state the      *)
(* guard of initializeScanner lets Start Scanning through.                   *)
C12_NeverStuck ==
  /\ [](scanStatus \in {"success", "location_warning"} => lastScan # 0)
  /\ [](scanStatus = "idle" => ~(isScanning \/ isStartingRef))
  /\ [][(scanStatus \in Terminal /\ scanStatus' = "idle") => ~isProcessingScanRef']_vars

(* Every awaited call of an evaluation settles: stop() of the camera and the *)
(* store calls resolve or fail, getCurrentPosition answers or runs into its  *)
(* timeout of 10 s.                                                          *)
EvalStep(e) ==
  \/ ScanStopped(e)
  \/ \E ok \in BOOLEAN : LookupReturned(e, ok)
  \/ \E ok \in BOOLEAN : DuplicateReturned(e, ok)
  \/ \E answer \in GeoAnswers : GeolocationReturned(e, answer)
  \/ \E ok \in BOOLEAN, message \in InsertErrorMessages : InsertReturned(e, ok, message)

AwaitsSettle == \A e \in EvalIds : WF_vars(EvalStep(e))

(* one scanning session over every payload, location answer and store *)
(* failure, the ledger written by this screen alone                    *)
NextLive ==
  \/ \E i \in InitIds : InitializeScanner(i)
  \/ \E i \in InitIds : InitCreate(i)
  \/ \E i \in InitIds : InitStarted(i)
  \/ \E i \in InitIds, t \in Payloads : HandleScanSuccess(i, t)
  \/ \E e \in EvalIds : ScanStopped(e)
  \/ \E e \in EvalIds, ok \in BOOLEAN : LookupReturned(e, ok)
  \/ \E e \in EvalIds, ok \in BOOLEAN : DuplicateReturned(e, ok)
  \/ \E e \in EvalIds, answer \in GeoAnswers : GeolocationReturned(e, answer)
  \/ \E e \in EvalIds, ok \in BOOLEAN, message \in InsertErrorMessages :
       InsertReturned(e, ok, message)

SpecLive == Init /\ [][NextLive]_vars /\ AwaitsSettle

Running(e) == evals[e].pc \notin {"none", "done"}

(* C13: every evaluation that started ends; the step that ends it sets the *)
(* status to one terminal status, which is the outcome of the evaluation;  *)
(* a failed geolocation request is followed by the insert.                 *)
C13_EvaluationEnds ==
  /\ \A e \in EvalIds : Running(e) ~> evals[e].pc = "done"
  /\ \A e \in EvalIds :
       (evals[e].pc = "insert" /\ evals[e].lat = Null) ~> evals[e].pc = "done"
  /\ [][\A e \in EvalIds :
          (evals[e].pc # "done" /\ evals'[e].pc = "done") =>
            /\ evals'[e].outcome \in Terminal
            /\ scanStatus' = evals'[e].outcome]_vars

C13_Witness ==
  \E e \in EvalIds :
    /\ Done(e)
    /\ evals[e].located = 1
    /\ evals[e].lat = Null
    /\ evals[e].outcome = "success"

(* C14: an evaluation issues its duplicate query only after the lookup has   *)
(* returned, its geolocation request only after the duplicate query has      *)
(* returned, and its insert only after the location step is over; each is    *)
(* issued at most once; the inserted row has the coordinates the location    *)
(* step resolved.                                                            *)
C14_StepsInOrder ==
  \A e \in EvalIds :
    LET ev == evals[e] IN
    /\ ev.issued <= ev.located /\ ev.located <= ev.queried /\ ev.queried <= 1
    /\ ev.pc \in {"stop", "lookup"} => ev.queried = 0
    /\ ev.pc = "dup" => (ev.cp # Null /\ ev.located = 0)
    /\ ev.pc = "geo" => (ev.queried = 1 /\ ev.issued = 0 /\ ev.lat = Null /\ ev.lng = Null)
    /\ ev.issued = 1 => ev.pc \in {"insert", "done"}
    /\ ev.pc \in {"stop", "lookup", "dup", "geo", "insert"} => RowsOf(e) = {}
    /\ Done(e) =>
         \A s \in RowsOf(e) :
           /\ ev.issued = 1
           /\ s.latitude = ev.lat
           /\ s.longitude = ev.lng

C14_Witness ==
  \E e \in EvalIds :
    /\ Done(e)
    /\ evals[e].issued = 1
    /\ evals[e].existing = Some(0)
    /\ \E s \in RowsOf(e) : s.latitude = Some(1) /\ s.longitude = Some(1)

(* C15: once a Cancel has completed, the status is not idle while the   *)
(* Html5Qrcode instance of the scanning session it cancelled is being   *)
(* started, running or being stopped.                                   *)
C15_CancelReleasesCamera ==
  \A c \in CancelIds :
    (cancels[c].pc = "done" /\ scanStatus = "idle") =>
      cam[cancels[c].session] \notin {"starting", "running", "stopping"}

(* C16: the insert of an evaluation is not conditioned on the ledger: when   *)
(* the store call succeeds the row is written, whatever was committed since  *)
(* the duplicate query returned. The interleaving in which this device and   *)
(* another one both pass the duplicate query before either insert commits is *)
(* the state C16_Witness.                                                    *)
C16_ReadThenWrite ==
  [][\A e \in EvalIds :
       (evals[e].pc = "insert" /\ evals'[e].pc = "done" /\ evals'[e].fault = "") =>
         \E s \in scans' \ scans : s.eval = e]_vars

(* two scans of one guard and checkpoint less than five minutes apart, one  *)
(* of this device, whose duplicate query returned no row while the ledger   *)
(* held no scan of the pair, and one of the other device, whose duplicate   *)
(* query returned no row either                                             *)
C16_Witness ==
  \E e \in EvalIds :
    /\ Done(e)
    /\ evals[e].existing = Some(0)
    /\ evals[e].ages = {}
    /\ \E own \in RowsOf(e), other \in scans :
         /\ other.eval = 0
         /\ other.guard_id = own.guard_id
         /\ other.checkpoint_id = own.checkpoint_id
         /\ other.scanned_at - own.scanned_at < FiveMinutes
         /\ own.scanned_at - other.scanned_at < FiveMinutes

(* the rows of guard_locations of a guard *)
LocationsOf(g) == { r \in guard_locations : r.guard_id = g }

(* the session of the tab is over and nothing of it is left: no position *)
(* request waits for its callback, every write it sent has been answered *)
(* and none of them failed                                               *)
Settled(t) ==
  /\ tabs[t].torn
  /\ tabs[t].pending = 0
  /\ tabs[t].writes = {}
  /\ ~tabs[t].lost

(* C17: after the teardown of the only session of the guard, once every     *)
(* position request and write of the session has completed (none failing)  *)
(* and one of them was a location update, the row of the guard exists and  *)
(* its status is offline.                                                  *)
C17_OfflineAfterTeardown ==
  \A t \in TabIds :
    ( /\ Settled(t)
      /\ \A u \in TabIds \ {t} : tabs[u] = NoTab
      /\ \E w \in sent : w.tab = t /\ w.kind = "upsert" )
    => /\ LocationsOf(TabGuard(t)) # {}
       /\ \A r \in LocationsOf(TabGuard(t)) : r.status = "offline"

(* the location updates and the offline updates sent so far *)
Upserts == { w \in sent : w.kind = "upsert" }
Offlines == { w \in sent : w.kind = "offline" }

(* C18 as stated: at most one row per guard, and the row equals the values *)
(* of one single write.                                                    *)
C18_OneWholeWrite ==
  /\ \A g \in Guards : Cardinality(LocationsOf(g)) <= 1
  /\ \A r \in guard_locations : \E w \in Upserts : r = w.row

(* C18, amended: at most one row per guard; the row holds the values of one *)
(* single location update, whole, until an offline update replaces its      *)
(* status and its updated_at, both together and nothing else.               *)
C18_OneRowPerGuard ==
  /\ \A g \in Guards : Cardinality(LocationsOf(g)) <= 1
  /\ \A r \in guard_locations :
       \E w \in Upserts :
         \/ r = w.row
         \/ \E o \in Offlines :
              r = [w.row EXCEPT !.status = o.row.status, !.updated_at = o.row.updated_at]

(* both tabs have written a location, of different values, an offline update *)
(* has been applied, every write has been answered, and the row is there     *)
C18_Witness ==
  /\ \E v \in Upserts : \E w \in Upserts : v.tab # w.tab /\ v.row # w.row
  /\ Offlines # {}
  /\ \A t \in TabIds : tabs[t].writes = {} /\ ~tabs[t].lost
  /\ \E r \in guard_locations : r.status = "offline"

(* C19: a step leaves every row of public.scans as it is, unless the step *)
(* removes the account of the guard of the row: a row is never changed,   *)
(* and it is removed only together with its guard.                        *)
C19_ScansImmutable ==
  [][\A r \in scans :
       \/ r \in scans'
       \/ /\ r.guard_id \in users /\ r.guard_id \notin users'
          /\ \A q \in scans' : q.id # r.id]_vars

(* the step changes a row of auth.users, public.profiles or public.user_roles *)
AccountsChange == users' # users \/ profiles' # profiles \/ user_roles' # user_roles

(* C20: an invocation of create-guard or delete-guard whose token did not  *)
(* resolve to a user holding the admin role (no header, an invalid token,  *)
(* a user without the role) answers with an error, and every step that     *)
(* changes a user, a profile or a role is a step of an invocation whose    *)
(* token resolved to a user holding the admin role.                        *)
C20_AdminOnly ==
  /\ [](\A k \in CallIds :
          (calls[k].pc = "done" /\ ~calls[k].admin) => calls[k].response.status = 400)
  /\ [][AccountsChange => \E k \in CallIds : calls[k].admin /\ calls'[k] # calls[k]]_vars

(* a caller without the admin role has been refused, and a caller with it *)
(* has been served                                                        *)
C20_Witness ==
  \E k \in CallIds : \E j \in CallIds :
    /\ calls[k].pc = "done" /\ ~calls[k].admin
    /\ calls[k].response.error = "Unauthorized: Admin access required"
    /\ calls[j].pc = "done" /\ calls[j].admin
    /\ calls[j].response.status = 200

(* the checkpoints a payload names: its text is the id, or what the QR *)
(* generator makes of the id                                           *)
Named(decodedText) ==
  { cp \in checkpoints : decodedText = cp.id \/ decodedText = qrValue(cp.id) }

(* C21: the payload the QR generator makes of a checkpoint id resolves to   *)
(* that id and a bare id resolves to itself; a payload that does not start  *)
(* with the prefix is used unchanged; an evaluation resolves the payload of *)
(* a checkpoint to the id of that checkpoint, and an evaluation of a        *)
(* payload that names no checkpoint ends with status error and the          *)
(* invalid-checkpoint message.                                              *)
C21_PayloadResolution ==
  /\ \A cp \in checkpoints : Parse(qrValue(cp.id)) = cp.id /\ Parse(cp.id) = cp.id
  /\ \A p \in Payloads : (Len(p) = 0 \/ p[1] # Prefix) => Parse(p) = p
  /\ \A e \in EvalIds :
       Started(e) =>
         /\ \A cp \in Named(evals[e].decodedText) : evals[e].checkpointId = cp.id
         /\ (evals[e].pc = "done" /\ Named(evals[e].decodedText) = {}) =>
              /\ evals[e].outcome = "error"
              /\ errorMessage = InvalidMessage

(* a generated payload has been evaluated and its scan recorded *)
C21_Witness ==
  \E e \in EvalIds : \E cp \in checkpoints :
    /\ evals[e].decodedText = qrValue(cp.id)
    /\ Recorded(e)
    /\ \E s \in RowsOf(e) : s.checkpoint_id = cp.id

(* the distinct checkpoint ids among the scans since the midnight fetchStats took *)
DistinctToday == Cardinality({ s.checkpoint_id : s \in ScansSince(fetch.today) })

(* p is the integer nearest to n / d *)
Nearest(p, n, d) == 2 * Abs(n - p * d) <= d

(* C22: when fetchStats has set the stats and its last query was answered,   *)
(* the coverage is 0 for a checkpoint count of 0 or unknown and otherwise    *)
(* the integer nearest to 100 times the distinct checkpoint ids among the    *)
(* scans since local midnight over the checkpoint count; it is 67 for 2 of   *)
(* 3. The distinct ids are those of the scans the store holds at the query.  *)
C22_Coverage ==
  /\ [](( fetch.pc = "done" /\ fetch.answered ) =>
          /\ ~Truthy(fetch.checkpointCount) => stats.coveragePercent = 0
          /\ Truthy(fetch.checkpointCount) =>
               Nearest(stats.coveragePercent, 100 * fetch.unique, Val(fetch.checkpointCount))
          /\ (fetch.checkpointCount = Some(3) /\ fetch.unique = 2) =>
               stats.coveragePercent = 67)
  /\ [][( fetch.pc = "today" /\ fetch'.pc = "done" /\ fetch'.answered ) =>
          /\ fetch'.unique = DistinctToday
          /\ fetch.today = StartOfDay(fetch.today) /\ fetch.today <= clock]_vars

(* 3 checkpoints were counted and 2 distinct ones were scanned today *)
C22_Witness ==
  /\ fetch.pc = "done" /\ fetch.answered
  /\ fetch.checkpointCount = Some(3)
  /\ fetch.unique = 2
  /\ stats.coveragePercent = 67

(* C28: the coverage the dashboard shows is between 0 and 100. *)
C28_CoverageInRange == stats.coveragePercent >= 0 /\ stats.coveragePercent <= 100

(* the age of a row on the screen, in seconds *)
Age(g) == clock - g.updated_at
Gray == "bg-muted-foreground"

(* C23: of the rows on the screen, one older than five minutes is offline  *)
(* for the label, the colour, the active count and the marker whatever its *)
(* status, and so is one of status offline however fresh; a row is active  *)
(* exactly when it is at most five minutes old and its status is not       *)
(* offline; the active and the offline count add up to the rows.           *)
C23_StaleIsOffline ==
  /\ \A g \in guardLocations :
       /\ (Age(g) > FiveMinutes \/ g.status = "offline") =>
            /\ getStatusLabel(g.status, g.updated_at, clock) = "Offline"
            /\ getStatusColor(g.status, g.updated_at, clock) = Gray
            /\ g \notin activeGuards(clock)
            /\ ~getGuardStatus(g, clock)
       /\ (Age(g) <= FiveMinutes /\ g.status # "offline") =>
            /\ g \in activeGuards(clock)
            /\ getGuardStatus(g, clock)
            /\ getStatusLabel(g.status, g.updated_at, clock) # "Offline"
            /\ getStatusColor(g.status, g.updated_at, clock) # Gray
  /\ Cardinality(activeGuards(clock)) + OfflineCount(clock) = Cardinality(guardLocations)

(* the screen holds a row of status on_patrol older than five minutes *)
C23_Witness ==
  \E g \in guardLocations : g.status = "on_patrol" /\ Age(g) > FiveMinutes

(* C24: while the session of a tab is on, its interval timer is armed and   *)
(* the next tick requests the position again, whatever ticks failed or      *)
(* succeeded before; a failed tick writes nothing and sends nothing; only   *)
(* the teardown of the session clears the timer.                            *)
C24_CadenceSurvivesFailure ==
  /\ [](\A t \in TabIds :
          tabs[t].mounted =>
            /\ tabs[t].timer
            /\ requests < MaxRequests => ENABLED IntervalFires(t))
  /\ [][\A t \in TabIds :
          /\ PositionError(t) =>
               /\ guard_locations' = guard_locations
               /\ sent' = sent
               /\ tabs'[t].writes = tabs[t].writes
          /\ (tabs[t].timer /\ ~tabs'[t].timer) =>
               (tabs[t].mounted /\ ~tabs'[t].mounted /\ tabs'[t].torn)]_vars

(* the first tick of the tab failed, nothing was written, and the next tick *)
(* has requested the position again                                         *)
C24_Witness ==
  \E t \in TabIds :
    /\ tabs[t].mounted /\ tabs[t].timer
    /\ \A u \in TabIds \ {t} : tabs[u] = NoTab
    /\ requests = 2
    /\ tabs[t].pending = 1
    /\ sent = {}
    /\ guard_locations = {}

(* C25 *)
(* the remediation message of each device-capability cause *)
Remediation(cause) ==
  CASE cause = "permission" ->
         "Camera permission denied. iPhone: Settings -> Safari -> Camera. Android: Site settings -> Camera."
    [] cause = "absence" -> "No camera found on this device."
    [] cause = "contention" ->
         "Camera is in use by another app. Please close other apps using the camera."

(* the step in which the start of the scanner fails with err *)
StartFails(i, err) == InitPreflightFailed(i, err) \/ InitStartFailed(i, err)

(* the step that ends a failed initializeScanner *)
FailureHandled(i) ==
  \/ \E err \in StartFailures : StartFails(i, err) /\ inits'[i].pc = "done"
  \/ InitCatchStopped(i)

C25_ErrorShown ==
  [][\A i \in InitIds, err \in StartFailures :
       StartFails(i, err) => scanStatus' = "error"]_vars

C25_CausesMapped ==
  [][\A i \in InitIds, err \in StartFailures :
       StartFails(i, err) /\ err.cause \in Causes
         => errorMessage' = FailedMessage(Remediation(err.cause))]_vars

C25_OthersOwnMessage ==
  [][\A i \in InitIds, err \in StartFailures :
       StartFails(i, err) /\ err.cause \notin Causes /\ err.message # ""
         => errorMessage' = FailedMessage(err.message)]_vars

C25_Cleared ==
  [][\A i \in InitIds :
       FailureHandled(i) => ~isScanning' /\ scannerRef' = 0 /\ ~isStartingRef']_vars

(* C25: when the start of the scanner fails the status becomes error;    *)
(* a failure caused by a denied permission, an absent camera or a camera *)
(* in use shows the remediation message of its cause, the three messages *)
(* being pairwise distinct, and any other failure shows its own message; *)
(* when the failed start ends, isScanning is false, scannerRef is null   *)
(* and isStartingRef is false.                                           *)
C25_StartFailureMapping ==
  /\ \A c, d \in Causes : c # d => Remediation(c) # Remediation(d)
  /\ C25_ErrorShown
  /\ C25_CausesMapped
  /\ C25_OthersOwnMessage
  /\ C25_Cleared

(* C26 *)
(* the evaluation has computed the distance to its checkpoint *)
Measured(e) == evals[e].pc # "none" /\ evals[e].dist # Null

(* the device stood on the coordinates of the checkpoint *)
OnCheckpoint(e) ==
  /\ evals[e].lat = Val(evals[e].cp).latitude
  /\ evals[e].lng = Val(evals[e].cp).longitude

(* C26: the distance calculateDistance gives for a scan is 0 when the   *)
(* device coordinates are those of the checkpoint, is never negative,   *)
(* and is the distance it gives with the device point and the           *)
(* checkpoint point swapped.                                            *)
C26_DistanceMetric ==
  \A e \in EvalIds :
    Measured(e) =>
      LET cp == Val(evals[e].cp)
          d == Val(evals[e].dist)
      IN /\ d = calculateDistance(Val(evals[e].lat), Val(evals[e].lng),
                                  Val(cp.latitude), Val(cp.longitude))
         /\ d = calculateDistance(Val(cp.latitude), Val(cp.longitude),
                                  Val(evals[e].lat), Val(evals[e].lng))
         /\ d >= 0
         /\ OnCheckpoint(e) => d = 0

(* a scan taken south of the equator, away from its checkpoint in       *)
(* latitude and longitude, at a positive distance                       *)
C26_Witness ==
  \E e \in EvalIds :
    /\ Measured(e)
    /\ evals[e].lat # Val(evals[e].cp).latitude
    /\ evals[e].lng # Val(evals[e].cp).longitude
    /\ Val(evals[e].lat) < 0
    /\ Val(evals[e].dist) > 0

(* C27 *)
(* the duplicate query of e has returned without data *)
FailedOpen(e) == PastDuplicateCheck(e) /\ evals[e].existing = Null

(* C27: an evaluation whose duplicate query failed is not ended as       *)
(* duplicate: it has requested the position, and once the position step  *)
(* is over it has issued its insert.                                     *)
C27_DuplicateCheckFailsOpen ==
  \A e \in EvalIds :
    FailedOpen(e) =>
      /\ evals[e].outcome # "duplicate"
      /\ evals[e].located = 1
      /\ evals[e].pc \in {"insert", "done"} => evals[e].issued = 1

(* the duplicate query failed, the scan was recorded, and a scan of the  *)
(* guard and the checkpoint less than five minutes old was in the ledger *)
C27_Witness ==
  \E e \in EvalIds :
    /\ FailedOpen(e)
    /\ Done(e)
    /\ RowsOf(e) # {}
    /\ \E a \in evals[e].ages : a < FiveMinutes

(* C29 *)
(* the create-guard invocation k has returned *)
CreateReturned(k) == calls[k].fn = "create-guard" /\ calls[k].pc = "done"

GuardRole(u) == [user_id |-> u, role |-> "guard"] \in user_roles

(* C29: once create-guard has returned, either it answered success and  *)
(* the new user exists and has a guard role row, or it answered an      *)
(* error and no new user exists.                                        *)
C29_NoAccountWithoutRole ==
  \A k \in CallIds :
    CreateReturned(k) =>
      \/ /\ calls[k].response.status = 200
         /\ NewUserId(k) \in users
         /\ GuardRole(NewUserId(k))
      \/ /\ calls[k].response.status = 400
         /\ NewUserId(k) \notin users

(* C30 *)
(* the accounts delete-guard is asked to remove *)
Accounts == {ADMIN} \cup Guards

(* the rows that belong to account u, table by table *)
ScansOf(u) == { r \in scans : r.guard_id = u }
ProfilesOf(u) == { r \in profiles : r.user_id = u }
RolesOf(u) == { r \in user_roles : r.user_id = u }

(* the delete-guard invocation k names the account of its own caller *)
OwnAccount(k) ==
  /\ calls[k].fn = "delete-guard"
  /\ calls[k].user # Null
  /\ Val(calls[k].body).userId = Val(calls[k].user)

(* C30: the step in which an account is removed leaves no scan, no      *)
(* profile and no role row of it and leaves guard_locations as it is;   *)
(* a delete-guard invocation whose target is its caller's own id        *)
(* answers an error at its checks, removes nothing and never reaches    *)
(* the deletion.                                                        *)
C30_RemovalCascade ==
  /\ [][\A u \in Accounts :
          (u \in users /\ u \notin users')
            => /\ (ScansOf(u))' = {}
               /\ (ProfilesOf(u))' = {}
               /\ (RolesOf(u))' = {}
               /\ guard_locations' = guard_locations]_vars
  /\ [][\A k \in CallIds :
          (calls[k].pc = "roles" /\ OwnAccount(k) /\ calls'[k] # calls[k])
            => /\ calls'[k].pc = "done"
               /\ calls'[k].response.status = 400
               /\ UNCHANGED <<users, profiles, user_roles, scans>>]_vars
  /\ [](\A k \in CallIds : calls[k].pc = "deleteUser" => ~OwnAccount(k))

(* the guard was removed: the administrator's log still shows a scan of *)
(* theirs that the ledger has lost, their profile and role are gone,    *)
(* their location row is there, and the administrator, whose own        *)
(* removal was refused, is still an account                             *)
C30_Witness ==
  /\ USER \notin users
  /\ \E r \in logs.rows : r.guard_id = USER
  /\ ScansOf(USER) = {}
  /\ ScansOf(OTHER_GUARD) # {}
  /\ LocationsOf(USER) # {}
  /\ \E k \in CallIds :
       /\ calls[k].pc = "done"
       /\ calls[k].response = [status |-> 400, error |-> "Cannot delete your own account"]
  /\ ADMIN \in users

====
